---- MODULE Spec2Model ----
(***************************************************************************)
(* A model of the axonet middleware pipeline: the chain, the error         *)
(* taxonomy and the resilience middlewares (retry, circuit breaker,        *)
(* singleflight, rate limiter, proxy and cookie rotation).                 *)
(*                                                                         *)
(* Every component has its own variables, initial condition, actions and   *)
(* specification (SpecRetry, SpecCB, ...); the variables of the other      *)
(* components stay at their idle values.  Spec is their composition.       *)
(*                                                                         *)
(* An error value is the set of the sentinel errors in its chain, so that  *)
(* errors.Is(err, target) is target \in err and nil is the empty set;      *)
(* fmt.Errorf("%w: %w", a, e) is {a} \cup e.                               *)
(***************************************************************************)
EXTENDS Integers, Sequences, FiniteSets, TLC

\* ------------------------------------------------------------------------
\* pkg/client/errors
\* ------------------------------------------------------------------------

NoErr == {}

\* fmt.Errorf("%w: %w", kind, e)
Wrap(kind, e) == {kind} \cup e

\* errors.IsTemporary
IsTemporary(e) ==
    "ErrNetwork" \in e \/ "ErrTimeout" \in e \/ "ErrBadStatus" \in e
        \/ "ErrTemporary" \in e

\* The sentinel errors an error value is built from, and the number of
\* them a chain holds at most.
ErrSentinels ==
    {"ErrTemporary", "ErrPermanent", "ErrNetwork", "ErrTimeout", "ErrBadStatus",
     "ErrRetryFailed", "ErrOther"}

ErrMaxChain == 3

\* ------------------------------------------------------------------------
\* middleware/retry
\* ------------------------------------------------------------------------

\* Bounds of the retry model.
MaxM == 3
InitialInterval == 2
MaxInterval == 4
CallTime == 1

\* backoff.DefaultMaxElapsedTime, which NewExponentialBackOff keeps because
\* Process passes no WithMaxElapsedTime option; in the model's time unit.
MaxElapsedTime == 9

\* The two versions of the middleware: "plain" returns RetryNotify's error
\* as it is (retry.go), "wrapping" wraps it in ErrRetryFailed.
RetryVersions == {"plain", "wrapping"}

\* http.Response status codes next may answer with; NoResp is a nil response.
NoResp == 0
RespSet == {NoResp, 200, 302, 404, 429, 500}

\* Errors next may return beside the response.
NextErrSet == {NoErr, {"ErrTemporary"}, {"ErrNetwork"}, {"ErrPermanent"}, {"ErrOther"}}

CtxErr == {"context.Canceled"}

\* ------------------------------------------------------------------------
\* middleware/singleflight
\* ------------------------------------------------------------------------

\* The goroutines that call Process, and the bound of the singleflight
\* model: the number of Process calls they make altogether.
Callers == {"g1", "g2", "g3"}
MaxRequests == 2

\* A text (a URL, a body) is a sequence of chunks of bytes. A request Body is
\* nil or a reader over a text, read up to an offset; a reader may fail.
NilBody == [nil |-> TRUE, data |-> <<>>, off |-> 0, fails |-> FALSE]

NewReader(data) == [nil |-> FALSE, data |-> data, off |-> 0, fails |-> FALSE]

FailingReader == [nil |-> FALSE, data |-> <<>>, off |-> 0, fails |-> TRUE]

\* The requests the callers issue: method, URL, header names (every header
\* has the one value "v") and Body.
SFRequests ==
    { [method |-> "GET", url |-> <<"/1">>, hdrs |-> {}, body |-> NilBody],
      [method |-> "GET", url |-> <<"/1">>, hdrs |-> {"Accept", "X-Id"}, body |-> NilBody],
      [method |-> "GET", url |-> <<"/2">>, hdrs |-> {"Accept", "Authorization"},
       body |-> NilBody],
      [method |-> "POST", url |-> <<"/1">>, hdrs |-> {}, body |-> NewReader(<<"b">>)],
      [method |-> "POST", url |-> <<"/1">>, hdrs |-> {}, body |-> NewReader(<<"c">>)],
      [method |-> "POST", url |-> <<"/1", "b">>, hdrs |-> {}, body |-> NilBody],
      [method |-> "POST", url |-> <<"/1">>, hdrs |-> {}, body |-> FailingReader] }

NoRequest == [method |-> "", url |-> <<>>, hdrs |-> {}, body |-> NilBody]

\* What next answers to the owner of a call: a response, a response with an
\* error, or an error.
SFOutcomes ==
    { [resp |-> 200, err |-> NoErr],
      [resp |-> 500, err |-> {"ErrBadStatus"}],
      [resp |-> NoResp, err |-> {"ErrNetwork"}] }

\* The body of a response next returns.
RespData == <<"r1", "r2">>

NoOutcome == [resp |-> NoResp, err |-> NoErr]

\* ------------------------------------------------------------------------
\* middleware/circuitbreaker: bounds and inputs
\* ------------------------------------------------------------------------

\* The goroutines that call Process, and the bounds of the circuit breaker
\* model: the Process calls made altogether, the clock, and the settings
\* New is given (in ticks of the clock).
CBCallers == {"g1", "g2"}
CBMaxCalls == 6
CBMaxTime == 4
CBMaxProbes == 2
CBInterval == 3
CBTimeout == 1

\* What next answers to a call the breaker lets through.
CBOutcomes ==
    { [resp |-> 200, err |-> NoErr],
      [resp |-> 500, err |-> NoErr],
      [resp |-> NoResp, err |-> {"ErrFailed"}],
      [resp |-> NoResp, err |-> {"gobreaker.ErrOpenState"}] }

\* ------------------------------------------------------------------------
\* pkg/client/middleware: bounds and inputs
\* ------------------------------------------------------------------------

\* The policies a chain is built from: the type is what reflect.TypeOf
\* tells apart, the instance is the value behind the interface.
ChainMiddlewares ==
    { [type |-> "header", inst |-> "a"],
      [type |-> "header", inst |-> "b"],
      [type |-> "singleflight", inst |-> "a"],
      [type |-> "retry", inst |-> "a"],
      [type |-> "ratelimit", inst |-> "a"] }

ChainPriorities == {1, 2}

\* The MaxAttempts of a RetryMiddleware that stands in a chain.
ChainMaxAttempts == 1

\* The length up to which sort.Slice sorts by insertion.
maxInsertion == 12

\* The policies of a long chain: maxInsertion + 1 types, one instance each.
LongMiddlewares == {[type |-> t, inst |-> "a"] : t \in 1..(maxInsertion + 1)}

\* The first LongLowTypes policies of a long chain are added at the lowest
\* priority, the others at any.
LongLowTypes == 7

\* How many Then calls on a long chain carry a policy already in the chain.
LongMaxReplace == 2

\* What http.Client.Do answers.
DoResults ==
    { [resp |-> 200, err |-> NoErr],
      [resp |-> 500, err |-> NoErr],
      [resp |-> NoResp, err |-> {"context.DeadlineExceeded"}],
      [resp |-> NoResp, err |-> {"ErrDial"}] }

\* The errors RateLimiterMiddleware returns without calling next.
RateLimitErrors(cancelled) ==
    IF cancelled THEN {CtxErr} ELSE {{"ErrTimeout"}}

\* ------------------------------------------------------------------------
\* middleware/proxy, middleware/cookie: bounds and inputs
\* ------------------------------------------------------------------------

\* The two rotators: the cursor of ProxyMiddleware and of the CookieMiddleware
\* that keeps an atomic counter, and the queue of the CookieMiddleware that
\* keeps a mutex.
RotKinds == {"cursor", "queue"}

RotCallers == {"g1", "g2"}

\* The pools New is given, and the pools an update stores.
RotPools == {<<>>, <<"A">>, <<"A", "B">>, <<"A", "B", "C">>}

RotNewPools == {<<>>, <<"D", "E">>}

\* The Process calls and the updates made altogether.
RotMaxCalls == 6
RotMaxUpdates == 1

\* ------------------------------------------------------------------------
\* middleware/ratelimit: bounds and inputs
\* ------------------------------------------------------------------------

\* The three RateLimiterMiddleware.Process of ratelimit.go differ in the error
\* they return: ErrTimeout for a deadline too short, or ErrRateLimitExceeded
\* around whatever Wait returned.
RLVersions == {"timeout", "exceeded"}

RLCallers == {"g1", "g2"}

\* The burst New is given, the ticks of the clock it takes to refill one
\* token (requestsPerSecond is positive and finite), the clock, the Process
\* calls made altogether, and the longest deadline of a request's context.
RLMaxBurst == 2
RLTokenPeriod == 2
RLMaxTime == 3
RLMaxCalls == 4
RLMaxDeadline == 2

\* A context without a deadline.
RLNoDeadline == {}

\* ------------------------------------------------------------------------
\* State
\* ------------------------------------------------------------------------

VARIABLES
    rVersion,       \* which version of RetryMiddleware is configured
    maxAttempts,    \* RetryMiddleware.maxAttempts
    rpc,            \* position of the one Process call: idle, call, wait, done
    rCalls,         \* number of invocations of next so far
    numTries,       \* backOffTries.numTries
    currentInterval,\* ExponentialBackOff.currentInterval
    rElapsed,       \* time since ExponentialBackOff.Reset (GetElapsedTime)
    rTimer,         \* the interval the timer was started with
    rCancelled,     \* ctx.Done() is closed
    rResp,          \* resp: the response of the latest attempt
    rLastErr,       \* the error next returned on the latest attempt
    rLastClass,     \* what handleRetryError returned for the latest attempt
    rRetResp,       \* the response Process returned
    rRetErr,        \* the error Process returned
    rStop,          \* what ended the retry loop
    rAllTemp,       \* every attempt so far was classified temporary
    rCallsAtCancel, \* rCalls when the context was cancelled (-1: not cancelled)
    rCancelPc       \* where Process was when the context was cancelled

retryVars == <<rVersion, maxAttempts, rpc, rCalls, numTries, currentInterval,
               rElapsed, rTimer, rCancelled, rResp, rLastErr, rLastClass,
               rRetResp, rRetErr, rStop, rAllTemp, rCallsAtCancel, rCancelPc>>

VARIABLES
    sfpc,       \* position of each caller in Process
    sfReq,      \* the request each caller passed to Process
    sfKey,      \* the key generateRequestKey returned to each caller
    sfCall,     \* the call each caller owns or waits on (0: none)
    sfRet,      \* what Process returns to each caller
    registry,   \* sfGroup.m: the calls in flight, as <<key, call>> pairs
    sfNextCalls,\* number of invocations of next so far; a call is named by
                \* the number of the invocation of next made for it
    sfStarted,  \* number of Process calls so far
    sfBody,     \* req.Body of each caller's request
    sfSent,     \* the body bytes next read from the owner's request
    sfProduced, \* what next returned for the call each caller took part in
    sfRespBody, \* per call: the Body of the response next returned
    sfGot,      \* what each caller has read from the Body of its response
    sfEOF,      \* each caller: its response's Body has reported io.EOF
    sfCancelled \* each caller: its context was cancelled while it waited

sfVars == <<sfpc, sfReq, sfKey, sfCall, sfRet, registry, sfNextCalls, sfStarted,
            sfBody, sfSent, sfProduced, sfRespBody, sfGot, sfEOF, sfCancelled>>

VARIABLES
    cbMaxRequests,  \* Settings.MaxRequests
    cbInterval,     \* Settings.Interval (0: the closed state never expires)
    cbState,        \* cb.state
    cbGeneration,   \* cb.generation
    cbCounts,       \* cb.counts
    cbExpiry,       \* cb.expiry (0: the zero time)
    cbNow,          \* the clock (time.Now)
    cbpc,           \* position of each caller in Process
    cbBefore,       \* the generation beforeRequest returned to each caller
    cbRet,          \* what Process returned to each caller
    cbNextCalls,    \* number of invocations of next so far
    cbStarted,      \* number of Process calls each caller has made
    cbNext          \* what next returned in each caller's call: <<>> until it has

cbVars == <<cbMaxRequests, cbInterval, cbState, cbGeneration, cbCounts, cbExpiry,
            cbNow, cbpc, cbBefore, cbRet, cbNextCalls, cbStarted, cbNext>>

VARIABLES
    middlewares,    \* Chain.middlewares
    chpc,           \* position of Chain.Process: "idle", "down", "up", "done"
    chIdx,          \* index (from 1) of the entry being invoked or returned to
    chOut,          \* the result on its way back to the caller
    chTries,        \* per entry: retries a RetryMiddleware there has made
    chCancelled,    \* the request's context is cancelled
    chTrace,        \* indices of the entries invoked for this request, in order
    chTerminal,     \* number of http.Client.Do calls for this request
    chShort,        \* the first entry that returned an error without calling next
    chRerun,        \* a RetryMiddleware invoked next again after chShort
    chAdded,        \* the types of the policies given to NewChain and Then
    chThen,         \* the last Then call on a long chain, and the chain before it
    chLongReplaced, \* Then calls on a long chain whose policy was in the chain
    chFailed        \* indices of the entries that returned without calling next

chainVars == <<middlewares, chpc, chIdx, chOut, chTries, chCancelled,
               chTrace, chTerminal, chShort, chRerun, chAdded, chThen,
               chLongReplaced, chFailed>>

VARIABLES
    rotKind,        \* which rotator
    rotPool,        \* m.proxies / m.cookies
    rotCurrent,     \* m.current
    rotpc,          \* position of each caller in Process
    rotState,       \* the pool each caller has loaded
    rotUpd,         \* position of UpdateProxies / UpdateCookies
    rotCalls,       \* number of Process calls so far
    rotUpdates,     \* number of updates so far
    rotInitial,     \* the pool New was given
    rotLog,         \* the elements selected so far, in order
    rotStored,      \* the pools New and the updates have stored
    rotTag,         \* each caller: the updates that had returned when it loaded
                    \* the pool (-1: an update was under way)
    rotSince,       \* the selections of the calls that started after the
                    \* latest update returned, in order
    rotClient,      \* the *http.Client the callers hand to Process, with its
                    \* Transport
    rotPassed,      \* each caller: the client its latest call handed to next
    rotCall         \* each caller's latest call: whether its context carried
                    \* the skip key, how often it invoked next, and the cookie
                    \* sets on the request it handed to next

rotVars == <<rotKind, rotPool, rotCurrent, rotpc, rotState, rotUpd, rotCalls,
             rotUpdates, rotInitial, rotLog, rotStored, rotTag, rotSince,
             rotClient, rotPassed, rotCall>>

VARIABLES
    rlVersion,      \* which Process
    rlBurst,        \* lim.burst
    rlTokens,       \* lim.tokens, in 1/RLTokenPeriod of a token
    rlLast,         \* lim.last
    rlLastEvent,    \* lim.lastEvent
    rlNow,          \* the clock
    rlpc,           \* position of each caller: "idle", "waiting", "done"
    rlAct,          \* timeToAct of each caller's reservation
    rlDeadline,     \* deadline of each caller's context: {} or {time}
    rlRet,          \* the error Process returned to each caller
    rlWaitErr,      \* the error limiter.Wait returned in each caller's call
    rlAdmitted,     \* per caller: next was invoked
    rlWaited,       \* per caller: Wait slept
    rlArrival,      \* per caller: number of its call among those with a live context
    rlArrivals,     \* calls with a live context so far
    rlCalls,        \* Process calls so far
    rlNextCalls     \* invocations of next so far

rlVars == <<rlVersion, rlBurst, rlTokens, rlLast, rlLastEvent, rlNow, rlpc, rlAct,
            rlDeadline, rlRet, rlWaitErr, rlAdmitted, rlWaited, rlArrival, rlArrivals, rlCalls,
            rlNextCalls>>

\* The variables of the other components, which a component's actions leave
\* unchanged.
VARIABLES
    errChain,   \* the sentinel errors in the chain of an error value
    errTemp     \* what IsTemporary returned for it: <<>> until it is asked

errVars == <<errChain, errTemp>>

VARIABLES
    plainMiddlewares, \* Chain.middlewares of the chain without priorities
    plainpc,          \* "idle", or "done" once a Process call has returned
    plainAdded,       \* the types given to Then, in the order they first came
    plainTrace,       \* the policies the latest Process call invoked, in order
    plainTerminal     \* the transport calls of the latest Process call

plainVars == <<plainMiddlewares, plainpc, plainAdded, plainTrace, plainTerminal>>

VARIABLES
    wpProxies,      \* m.state.proxies of the weighted ProxyMiddleware
    wpLastUsed,     \* m.state.lastUsed
    wpNow,          \* time.Now(), in hours
    wppc,           \* position of each caller in Process
    wpIndex,        \* each caller: the index (from 0) at which selectProxy
                    \* wrote lastUsed and read proxies in its latest call
    wpProxy,        \* each caller: what selectProxy returned, <<>> until it has
    wpHeld,         \* each caller: m.state.proxies as selectProxy found it
    wpCalls,        \* number of Process calls so far
    wpUpdates       \* number of UpdateProxies calls so far

wpVars == <<wpProxies, wpLastUsed, wpNow, wppc, wpIndex, wpProxy, wpHeld,
            wpCalls, wpUpdates>>

VARIABLES
    atInner,        \* the policy ordered after the RetryMiddleware
    atPool,         \* the cookie sets of a CookieMiddleware (its queue)
    atCurrent,      \* m.current of a CookieMiddleware
    atReq,          \* the *http.Request of the logical request
    atCookies,      \* the cookie sets on the Cookie header of the request
    atpc,           \* "idle", "inner", "transport", "back", "done"
    atTries,        \* retries the RetryMiddleware has made
    atSelected,     \* the cookie set selected in the attempt under way
    atKey,          \* the key computed in the attempt under way
    atOut,          \* what next returned to the RetryMiddleware
    atLog           \* per attempt that reached the transport: the cookie set
                    \* selected, the cookie sets sent, the key, and whether
                    \* the transport read the body

atVars == <<atInner, atPool, atCurrent, atReq, atCookies, atpc, atTries,
            atSelected, atKey, atOut, atLog>>

nonRetryVars == <<sfVars, cbVars, chainVars, rotVars, rlVars, errVars,
                  plainVars, wpVars, atVars>>
nonSFVars == <<retryVars, cbVars, chainVars, rotVars, rlVars, errVars,
               plainVars, wpVars, atVars>>
nonCBVars == <<retryVars, sfVars, chainVars, rotVars, rlVars, errVars,
               plainVars, wpVars, atVars>>
nonChainVars == <<retryVars, sfVars, cbVars, rotVars, rlVars, errVars,
                  plainVars, wpVars, atVars>>
nonRotVars == <<retryVars, sfVars, cbVars, chainVars, rlVars, errVars,
                plainVars, wpVars, atVars>>
nonRLVars == <<retryVars, sfVars, cbVars, chainVars, rotVars, errVars,
               plainVars, wpVars, atVars>>
nonErrVars == <<retryVars, sfVars, cbVars, chainVars, rotVars, rlVars,
                plainVars, wpVars, atVars>>
nonPlainVars == <<retryVars, sfVars, cbVars, chainVars, rotVars, rlVars,
                  errVars, wpVars, atVars>>
nonWPVars == <<retryVars, sfVars, cbVars, chainVars, rotVars, rlVars,
               errVars, plainVars, atVars>>
nonAtVars == <<retryVars, sfVars, cbVars, chainVars, rotVars, rlVars,
               errVars, plainVars, wpVars>>

vars == <<retryVars, sfVars, cbVars, chainVars, rotVars, rlVars, errVars,
          plainVars, wpVars, atVars>>

\* A classification: nil (success), an error to retry, or backoff.Permanent(err).
Classified(kind, e) == [kind |-> kind, e |-> e]

handleRetryError_IgnoreStatus(version, resp, err) ==
    IF err # NoErr
    THEN IF IsTemporary(err)
         THEN Classified("temp", err)
         ELSE Classified("perm", err)
    ELSE Classified("nil", NoErr)

handleRetryError_5xxPermanent(version, resp, err) ==
    IF version = "plain" /\ resp # NoResp /\ resp >= 400
    THEN Classified("perm", {"ErrBadStatus"})
    ELSE handleRetryError_IgnoreStatus(version, resp, err)

handleRetryError_RetryPermanent(version, resp, err) ==
    IF version = "plain" /\ resp # NoResp /\ resp >= 400
    THEN Classified("temp", {"ErrBadStatus"})
    ELSE IF err # NoErr
         THEN Classified("temp", err)
         ELSE Classified("nil", NoErr)

\* RetryMiddleware.handleRetryError: retry.go looks at the status first and
\* then at the error; the wrapping version looks at the error only.
handleRetryError(version, resp, err) ==
    IF version = "plain" /\ resp # NoResp /\ resp >= 500
    THEN Classified("temp", {"ErrBadStatus"})
    ELSE IF version = "plain" /\ resp # NoResp /\ resp = 429
    THEN Classified("temp", {"ErrBadStatus"})
    ELSE IF version = "plain" /\ resp # NoResp /\ resp >= 400
    THEN Classified("perm", {"ErrBadStatus"})
    ELSE IF err # NoErr
         THEN IF IsTemporary(err)
              THEN Classified("temp", err)
              ELSE Classified("perm", err)
         ELSE Classified("nil", NoErr)

\* ExponentialBackOff.incrementCurrentInterval with Multiplier 1.5.
incrementCurrentInterval(cur) ==
    IF cur * 3 >= MaxInterval * 2 THEN MaxInterval ELSE (cur * 3) \div 2

\* getRandomValueFromInterval with RandomizationFactor 0.5: the lowest, the
\* middle and the highest value it can draw.
RandomizedIntervals(cur) == {cur - (cur \div 2), cur, cur + (cur \div 2)}

\* backOffTries.NextBackOff: Stop once maxTries retries were granted.
TriesLeft(tries) == maxAttempts # 0 /\ tries < maxAttempts

ProcessResult_DropCause(version, resp, retryErr) ==
    IF version = "wrapping"
    THEN IF retryErr # NoErr
         THEN [resp |-> NoResp, err |-> {"ErrRetryFailed"}]
         ELSE [resp |-> resp, err |-> NoErr]
    ELSE [resp |-> resp, err |-> retryErr]

\* What Process returns once RetryNotify has returned (resp, retryErr).
ProcessResult(version, resp, retryErr) ==
    IF version = "wrapping"
    THEN IF retryErr # NoErr
         THEN [resp |-> NoResp, err |-> Wrap("ErrRetryFailed", retryErr)]
         ELSE [resp |-> resp, err |-> NoErr]
    ELSE [resp |-> resp, err |-> retryErr]

\* Process returns: RetryNotify returned (rResp', retryErr) because of `stop`.
RetryReturn(resp, retryErr, stop) ==
    /\ rpc' = "done"
    /\ rStop' = stop
    /\ rRetResp' = ProcessResult(rVersion, resp, retryErr).resp
    /\ rRetErr' = ProcessResult(rVersion, resp, retryErr).err
    /\ UNCHANGED <<numTries, currentInterval, rTimer>>

RetryIdle ==
    /\ rpc = "idle"
    /\ rCalls = 0
    /\ numTries = 0
    /\ currentInterval = InitialInterval
    /\ rElapsed = 0
    /\ rTimer = 0
    /\ rCancelled = FALSE
    /\ rResp = NoResp
    /\ rLastErr = NoErr
    /\ rLastClass = Classified("none", NoErr)
    /\ rRetResp = NoResp
    /\ rRetErr = NoErr
    /\ rStop = "none"
    /\ rAllTemp = TRUE
    /\ rCallsAtCancel = -1
    /\ rCancelPc = "none"

\* retry.New
RetryInit ==
    /\ rVersion \in RetryVersions
    /\ maxAttempts \in 0..MaxM
    /\ RetryIdle

\* Process is entered: the backoff strategy is built and Reset.
RetryStart ==
    /\ rpc = "idle"
    /\ rpc' = "call"
    /\ UNCHANGED <<rVersion, maxAttempts, rCalls, numTries, currentInterval,
                   rElapsed, rTimer, rCancelled, rResp, rLastErr, rLastClass,
                   rRetResp, rRetErr, rStop, rAllTemp, rCallsAtCancel, rCancelPc>>
    /\ UNCHANGED nonRetryVars

\* One turn of RetryNotify's loop: the operation (next, then
\* handleRetryError), then the decision to return or to start the timer.
RetryAttempt ==
    /\ rpc = "call"
    /\ \E resp \in RespSet, err \in NextErrSet, d \in {0, CallTime} :
        LET c == handleRetryError(rVersion, resp, err)
            elapsed == rElapsed + d
        IN  /\ rCalls' = rCalls + 1
            /\ rResp' = resp
            /\ rLastErr' = err
            /\ rLastClass' = c
            /\ rElapsed' = elapsed
            /\ rAllTemp' = (rAllTemp /\ c.kind = "temp")
            /\ CASE c.kind = "nil" -> RetryReturn(resp, NoErr, "success")
                 [] c.kind = "perm" -> RetryReturn(resp, c.e, "permanent")
                 [] OTHER ->
                    IF rCancelled
                    THEN \* backOffContext.NextBackOff: Stop, and ctx.Err() wins
                         RetryReturn(resp, CtxErr, "ctx")
                    ELSE IF ~TriesLeft(numTries)
                    THEN RetryReturn(resp, c.e, "tries")
                    ELSE \E next \in RandomizedIntervals(currentInterval) :
                           IF elapsed + next > MaxElapsedTime
                           THEN /\ rpc' = "done"
                                /\ rStop' = "elapsed"
                                /\ rRetResp' = ProcessResult(rVersion, resp, c.e).resp
                                /\ rRetErr' = ProcessResult(rVersion, resp, c.e).err
                                /\ numTries' = numTries + 1
                                /\ currentInterval' = incrementCurrentInterval(currentInterval)
                                /\ UNCHANGED rTimer
                           ELSE /\ rpc' = "wait"
                                /\ rTimer' = next
                                /\ numTries' = numTries + 1
                                /\ currentInterval' = incrementCurrentInterval(currentInterval)
                                /\ UNCHANGED <<rStop, rRetResp, rRetErr>>
    /\ UNCHANGED <<rVersion, maxAttempts, rCancelled, rCallsAtCancel, rCancelPc>>
    /\ UNCHANGED nonRetryVars

\* The select of RetryNotify: the interval has passed, the timer fires and
\* the loop goes on. While the timer is pending and ctx.Done() is closed the
\* select has ctx.Done() as its one ready case; a cancellation at or after
\* the timer's expiry is RetryCancel at "call".
RetryTimerFires ==
    /\ rpc = "wait"
    /\ ~rCancelled
    /\ rpc' = "call"
    /\ rElapsed' = rElapsed + rTimer
    /\ UNCHANGED <<rVersion, maxAttempts, rCalls, numTries, currentInterval,
                   rTimer, rCancelled, rResp, rLastErr, rLastClass, rRetResp,
                   rRetErr, rStop, rAllTemp, rCallsAtCancel, rCancelPc>>
    /\ UNCHANGED nonRetryVars

\* The select of RetryNotify: ctx.Done() is ready and ctx.Err() is returned.
RetryWaitCancelled ==
    /\ rpc = "wait"
    /\ rCancelled
    /\ rpc' = "done"
    /\ rStop' = "ctx"
    /\ rRetResp' = ProcessResult(rVersion, rResp, CtxErr).resp
    /\ rRetErr' = ProcessResult(rVersion, rResp, CtxErr).err
    /\ UNCHANGED <<rVersion, maxAttempts, rCalls, numTries, currentInterval,
                   rElapsed, rTimer, rCancelled, rResp, rLastErr, rLastClass,
                   rAllTemp, rCallsAtCancel, rCancelPc>>
    /\ UNCHANGED nonRetryVars

\* The caller cancels the context of the request.
RetryCancel ==
    /\ rpc \in {"call", "wait"}
    /\ ~rCancelled
    /\ rCancelled' = TRUE
    /\ rCallsAtCancel' = rCalls
    /\ rCancelPc' = rpc
    /\ UNCHANGED <<rVersion, maxAttempts, rpc, rCalls, numTries, currentInterval,
                   rElapsed, rTimer, rResp, rLastErr, rLastClass, rRetResp,
                   rRetErr, rStop, rAllTemp>>
    /\ UNCHANGED nonRetryVars

NextRetry ==
    \/ RetryStart
    \/ RetryAttempt
    \/ RetryTimerFires
    \/ RetryWaitCancelled
    \/ RetryCancel

\* ------------------------------------------------------------------------
\* Claims about the retry middleware (checked under SpecRetry)
\* ------------------------------------------------------------------------

\* Every attempt failed temporarily and the context was never cancelled.
RetryAlwaysTemporary == rpc = "done" /\ rAllTemp /\ ~rCancelled

\* C2: with maxAttempts = M, a next that fails temporarily on every call and
\* a context that is never cancelled, Process ends after exactly M+1
\* invocations of next.
C2_Original == RetryAlwaysTemporary => rCalls = maxAttempts + 1

\* All M+1 attempts were made and each of them failed temporarily.
RetryExhausted == rpc = "done" /\ rAllTemp /\ rCalls = maxAttempts + 1

\* C8: Process returns an error of the ErrRetryFailed kind if and only if all
\* M+1 attempts failed with temporary errors (and the error then wraps the
\* failure of the last attempt); a permanent failure or a cancellation is
\* returned without ErrRetryFailed.
C8_Original ==
    rpc = "done" =>
        /\ ("ErrRetryFailed" \in rRetErr) <=> RetryExhausted
        /\ RetryExhausted => rLastClass.e \subseteq rRetErr

\* next has returned an error that is not temporary.
NonTemporaryFailure == rCalls > 0 /\ rLastErr # NoErr /\ ~IsTemporary(rLastErr)

RetriedOrOutOfRetries ==
    \/ rpc \in {"wait", "call"}
    \/ rpc = "done" /\ rStop \in {"tries", "elapsed", "ctx"}

\* C10 as stated (retry.go): a status >= 500 or 429 is temporary, any other
\* 4xx is permanent, and a 2xx/3xx response is a success that ends retrying
\* whatever error next returned beside it.
C10_Original ==
    (rVersion = "plain" /\ rCalls > 0 /\ rResp # NoResp) =>
        /\ (rResp >= 500 \/ rResp = 429) => rLastClass.kind = "temp"
        /\ (rResp >= 400 /\ rResp < 500 /\ rResp # 429) => rLastClass.kind = "perm"
        /\ rResp < 400 => (rpc = "done" /\ rStop = "success")

\* C10 as amended (retry.go): a status >= 500 or 429 is temporary, any other
\* 4xx is permanent, and an attempt with a 2xx/3xx response is classified by
\* the error next returned beside it: a success that ends retrying when the
\* error is nil, temporary (retried) when the error is temporary, permanent
\* otherwise.
C10_StatusPolicy ==
    (rVersion = "plain" /\ rCalls > 0 /\ rResp # NoResp) =>
        /\ (rResp >= 500 \/ rResp = 429) =>
                (rLastClass.kind = "temp" /\ RetriedOrOutOfRetries)
        /\ (rResp >= 400 /\ rResp < 500 /\ rResp # 429) =>
                (rLastClass.kind = "perm" /\ rpc = "done" /\ rStop = "permanent")
        /\ (rResp < 400 /\ rLastErr = NoErr) =>
                (rLastClass.kind = "nil" /\ rpc = "done" /\ rStop = "success"
                    /\ rRetErr = NoErr /\ rRetResp = rResp)
        /\ (rResp < 400 /\ rLastErr # NoErr /\ IsTemporary(rLastErr)) =>
                (rLastClass.kind = "temp" /\ RetriedOrOutOfRetries)
        /\ (rResp < 400 /\ rLastErr # NoErr /\ ~IsTemporary(rLastErr)) =>
                (rLastClass.kind = "perm" /\ rpc = "done" /\ rStop = "permanent")

C10_Witness ==
    /\ rVersion = "plain"
    /\ rpc = "wait"
    /\ rResp = 200
    /\ rLastErr = {"ErrTemporary"}
    /\ rCalls = 2

\* C23: once the context has been cancelled while Process was in its backoff
\* wait, next is not invoked again and no backoff time is waited out: the one
\* step Process takes is to return, and what it returns is an error whose
\* chain contains the context's error.
C23_CancelledInWait ==
    [][ /\ (rCancelPc = "wait" /\ rpc = "wait")
              => ( /\ rpc' = "done"
                   /\ rStop' = "ctx"
                   /\ CtxErr \subseteq rRetErr' )
        /\ rCancelPc = "wait"
              => ( /\ rCalls' = rCalls
                   /\ rCalls = rCallsAtCancel
                   /\ rElapsed' = rElapsed ) ]_vars

\* Process has returned after a cancellation in its backoff wait, with tries
\* left, and next was not invoked since.
C23_Witness ==
    /\ rCancelPc = "wait"
    /\ rpc = "done"
    /\ rStop = "ctx"
    /\ CtxErr \subseteq rRetErr
    /\ TriesLeft(numTries)
    /\ rCalls = rCallsAtCancel
    /\ rCalls = 2

\* The orders in which a range over a map with these keys can visit them.
Enumerations(S) ==
    { q \in [1..Cardinality(S) -> S] : \A x \in S : \E i \in DOMAIN q : q[i] = x }

\* io.ReadAll: the bytes from the reader's offset to its end.
ReadAll(body) == SubSeq(body.data, body.off + 1, Len(body.data))

\* The reader after io.ReadAll.
Drained(body) == [body EXCEPT !.off = Len(body.data)]

RestoredBody_AtEnd(read) ==
    [nil |-> FALSE, data |-> read, off |-> Len(read), fails |-> FALSE]

\* io.NopCloser(bytes.NewReader(body))
RestoredBody(read) == NewReader(read)

\* What the loop over req.Header writes to the hash: key + fmt.Sprint(values)
\* for every header but Authorization, in the order of the range.
RECURSIVE HeaderTexts(_)
HeaderTexts(order) ==
    IF order = <<>> THEN <<>>
    ELSE (IF Head(order) # "Authorization" THEN <<Head(order), "[v]">> ELSE <<>>)
            \o HeaderTexts(Tail(order))

\* The digest of what generateRequestKey writes to the hash, one text after
\* the other with nothing between them: method + URL, the headers, then the
\* bytes read from the body.  The digest is taken to be free of collisions:
\* equal keys are equal streams of bytes.
Hashed(req, order, read) ==
    <<req.method>> \o req.url \o HeaderTexts(order) \o read

\* generateRequestKey: the key, the error, and req.Body as it leaves it.
generateRequestKey(req, order) ==
    IF req.body.nil
    THEN [key |-> Hashed(req, order, <<>>), err |-> NoErr, body |-> req.body]
    ELSE IF req.body.fails
    THEN [key |-> <<>>, err |-> {"ErrBodyRead"}, body |-> req.body]
    ELSE [key |-> Hashed(req, order, ReadAll(req.body)), err |-> NoErr,
          body |-> RestoredBody(ReadAll(req.body))]

NotSent == [sent |-> FALSE, data |-> <<>>]

Lookup_AnyKey(key) == registry

\* Group.Do looks the key up in g.m.
Lookup(key) == {e \in registry : e[1] = key}

InFlight(key) == Lookup(key) # {}

CallOf(key) == (CHOOSE e \in Lookup(key) : TRUE)[2]

\* What Process makes of the (result, err) that sfGroup.Do returned.
SFProcessResult_Unwrapped(val, err) ==
    IF err # NoErr
    THEN [resp |-> NoResp, err |-> err]
    ELSE [resp |-> val, err |-> NoErr]

SFProcessResult(val, err) ==
    IF err # NoErr
    THEN [resp |-> NoResp, err |-> Wrap("ErrRequestFailed", err)]
    ELSE [resp |-> val, err |-> NoErr]

SFIdle ==
    /\ sfpc = [p \in Callers |-> "idle"]
    /\ sfReq = [p \in Callers |-> NoRequest]
    /\ sfKey = [p \in Callers |-> <<>>]
    /\ sfCall = [p \in Callers |-> 0]
    /\ sfRet = [p \in Callers |-> NoOutcome]
    /\ registry = {}
    /\ sfNextCalls = 0
    /\ sfStarted = 0
    /\ sfBody = [p \in Callers |-> NilBody]
    /\ sfSent = [p \in Callers |-> NotSent]
    /\ sfProduced = [p \in Callers |-> NoOutcome]
    /\ sfRespBody = <<>>
    /\ sfGot = [p \in Callers |-> <<>>]
    /\ sfEOF = [p \in Callers |-> FALSE]
    /\ sfCancelled = [p \in Callers |-> FALSE]

\* singleflight.New
SFInit == SFIdle

\* A caller enters Process with a request and generateRequestKey returns:
\* the key, or an error with which Process returns at once.
SFGenerateKey(p) ==
    /\ sfpc[p] \in {"idle", "done"}
    /\ sfStarted < MaxRequests
    /\ \E req \in SFRequests : \E order \in Enumerations(req.hdrs) :
        LET g == generateRequestKey(req, order)
        IN  /\ sfReq' = [sfReq EXCEPT ![p] = req]
            /\ sfKey' = [sfKey EXCEPT ![p] = g.key]
            /\ sfBody' = [sfBody EXCEPT ![p] = g.body]
            /\ sfpc' = [sfpc EXCEPT ![p] = IF g.err = NoErr THEN "keyed" ELSE "done"]
            /\ sfRet' = [sfRet EXCEPT ![p] =
                            IF g.err = NoErr THEN NoOutcome
                            ELSE [resp |-> NoResp,
                                  err |-> Wrap("ErrKeyGeneration", g.err)]]
    /\ sfCall' = [sfCall EXCEPT ![p] = 0]
    /\ sfSent' = [sfSent EXCEPT ![p] = NotSent]
    /\ sfProduced' = [sfProduced EXCEPT ![p] = NoOutcome]
    /\ sfGot' = [sfGot EXCEPT ![p] = <<>>]
    /\ sfEOF' = [sfEOF EXCEPT ![p] = FALSE]
    /\ sfCancelled' = [sfCancelled EXCEPT ![p] = FALSE]
    /\ sfStarted' = sfStarted + 1
    /\ UNCHANGED <<registry, sfNextCalls, sfRespBody>>
    /\ UNCHANGED nonSFVars

\* sfGroup.Do finds a call in flight under the key: the caller waits on it.
SFJoin(p) ==
    /\ sfpc[p] = "keyed"
    /\ InFlight(sfKey[p])
    /\ sfpc' = [sfpc EXCEPT ![p] = "waiting"]
    /\ sfCall' = [sfCall EXCEPT ![p] = CallOf(sfKey[p])]
    /\ UNCHANGED <<sfReq, sfKey, sfRet, registry, sfNextCalls, sfStarted, sfBody, sfSent,
                   sfProduced, sfRespBody, sfGot, sfEOF, sfCancelled>>
    /\ UNCHANGED nonSFVars

\* sfGroup.Do finds no call under the key: the caller registers one and
\* invokes next, which reads the body of the request to its end.
SFOwn(p) ==
    /\ sfpc[p] = "keyed"
    /\ ~InFlight(sfKey[p])
    /\ sfNextCalls' = sfNextCalls + 1
    /\ registry' = registry \cup {<<sfKey[p], sfNextCalls + 1>>}
    /\ sfCall' = [sfCall EXCEPT ![p] = sfNextCalls + 1]
    /\ sfpc' = [sfpc EXCEPT ![p] = "calling"]
    /\ sfSent' = [sfSent EXCEPT ![p] =
                    IF sfBody[p].nil THEN [sent |-> TRUE, data |-> <<>>]
                    ELSE [sent |-> TRUE, data |-> ReadAll(sfBody[p])]]
    /\ sfBody' = [sfBody EXCEPT ![p] = Drained(@)]
    /\ sfRespBody' = Append(sfRespBody, NilBody)
    /\ UNCHANGED <<sfReq, sfKey, sfRet, sfStarted, sfProduced, sfGot, sfEOF, sfCancelled>>
    /\ UNCHANGED nonSFVars

\* next returns to the owner: the result is stored in the call (c.val,
\* c.err), its waiters are released (c.wg.Done), the call is removed from the
\* registry and Process returns to the owner.  The callers of the call all
\* get c.val, the one *http.Response.
SFNextReturns(p) ==
    /\ sfpc[p] = "calling"
    /\ \E out \in SFOutcomes :
        /\ sfRet' = [q \in Callers |->
                        IF q = p \/ (sfpc[q] = "waiting" /\ sfCall[q] = sfCall[p])
                        THEN SFProcessResult(out.resp, out.err)
                        ELSE sfRet[q]]
        /\ sfProduced' = [q \in Callers |->
                        IF q = p \/ (sfpc[q] = "waiting" /\ sfCall[q] = sfCall[p])
                        THEN out
                        ELSE sfProduced[q]]
        /\ sfRespBody' = [sfRespBody EXCEPT ![sfCall[p]] =
                            IF out.resp = NoResp THEN NilBody ELSE NewReader(RespData)]
    /\ sfpc' = [q \in Callers |->
                    IF q = p THEN "done"
                    ELSE IF sfpc[q] = "waiting" /\ sfCall[q] = sfCall[p] THEN "released"
                    ELSE sfpc[q]]
    /\ registry' = registry \ {<<sfKey[p], sfCall[p]>>}
    /\ UNCHANGED <<sfReq, sfKey, sfCall, sfNextCalls, sfStarted, sfBody, sfSent,
                   sfGot, sfEOF, sfCancelled>>
    /\ UNCHANGED nonSFVars

\* The context of a waiter is cancelled. The waiter is blocked in c.wg.Wait
\* of Group.Do, which takes no context: nothing else changes.
SFCancel(p) ==
    /\ sfpc[p] = "waiting"
    /\ ~sfCancelled[p]
    /\ sfCancelled' = [sfCancelled EXCEPT ![p] = TRUE]
    /\ UNCHANGED <<sfpc, sfReq, sfKey, sfCall, sfRet, registry, sfNextCalls, sfStarted,
                   sfBody, sfSent, sfProduced, sfRespBody, sfGot, sfEOF>>
    /\ UNCHANGED nonSFVars

\* A released waiter resumes (c.wg.Wait returns) and Process returns to it.
SFWaiterReturns(p) ==
    /\ sfpc[p] = "released"
    /\ sfpc' = [sfpc EXCEPT ![p] = "done"]
    /\ UNCHANGED <<sfReq, sfKey, sfCall, sfRet, registry, sfNextCalls, sfStarted,
                   sfBody, sfSent, sfProduced, sfRespBody, sfGot, sfEOF, sfCancelled>>
    /\ UNCHANGED nonSFVars

\* A caller to which Process returned a response reads from its Body: the
\* next chunk of the reader, or io.EOF at its end.  The callers of one call
\* hold the same *http.Response, and so the same reader.
SFReadBody(p) ==
    /\ sfpc[p] = "done"
    /\ sfRet[p].err = NoErr
    /\ sfRet[p].resp # NoResp
    /\ ~sfEOF[p]
    /\ LET body == sfRespBody[sfCall[p]]
       IN  IF body.off < Len(body.data)
           THEN /\ sfGot' = [sfGot EXCEPT ![p] = Append(@, body.data[body.off + 1])]
                /\ sfRespBody' = [sfRespBody EXCEPT ![sfCall[p]].off = @ + 1]
                /\ UNCHANGED sfEOF
           ELSE /\ sfEOF' = [sfEOF EXCEPT ![p] = TRUE]
                /\ UNCHANGED <<sfGot, sfRespBody>>
    /\ UNCHANGED <<sfpc, sfReq, sfKey, sfCall, sfRet, registry, sfNextCalls, sfStarted,
                   sfBody, sfSent, sfProduced, sfCancelled>>
    /\ UNCHANGED nonSFVars

NextSF ==
    \/ \E p \in Callers : SFGenerateKey(p)
    \/ \E p \in Callers : SFJoin(p)
    \/ \E p \in Callers : SFOwn(p)
    \/ \E p \in Callers : SFNextReturns(p)
    \/ \E p \in Callers : SFWaiterReturns(p)
    \/ \E p \in Callers : SFReadBody(p)
    \/ \E p \in Callers : SFCancel(p)

\* ------------------------------------------------------------------------
\* Claims about the singleflight middleware (checked under SpecSF)
\* ------------------------------------------------------------------------

\* The callers that are inside sfGroup.Do: they own a call or wait on one.
SFInside(p) == sfpc[p] \in {"calling", "waiting"}

\* C1: callers that are inside Process at the same time with identical
\* requests (same method, URL, headers but Authorization, and body) take
\* part in one and the same call, so next is invoked once for all of them,
\* and the callers of one call have the same outcome.
C1_OneExecutionPerRequest ==
    \A p, q \in Callers :
        /\ (SFInside(p) /\ SFInside(q) /\ sfReq[p] = sfReq[q]) => sfCall[p] = sfCall[q]
        /\ (sfpc[p] \in {"done", "released"} /\ sfpc[q] \in {"done", "released"}
                /\ sfCall[p] = sfCall[q]) => sfRet[p] = sfRet[q]

\* C14: callers that are inside sfGroup.Do at the same time with different
\* keys take part in different calls, each call registered under its own key
\* and with its own invocation of next; so do requests that differ in URL
\* only or in body only.
C14_NoCrossCoalescing ==
    /\ \A p, q \in Callers :
          (SFInside(p) /\ SFInside(q)) =>
              /\ sfKey[p] # sfKey[q] => sfCall[p] # sfCall[q]
              /\ ( /\ sfReq[p].method = sfReq[q].method
                    /\ sfReq[p].hdrs = {} /\ sfReq[q].hdrs = {}
                    /\ \/ /\ sfReq[p].url # sfReq[q].url
                          /\ sfReq[p].body = sfReq[q].body
                       \/ /\ sfReq[p].url = sfReq[q].url
                          /\ ReadAll(sfReq[p].body) # ReadAll(sfReq[q].body) )
                    => sfCall[p] # sfCall[q]
    /\ \A p \in Callers :
          SFInside(p) => /\ <<sfKey[p], sfCall[p]>> \in registry
                         /\ sfCall[p] \in 1..sfNextCalls
    /\ \A e, f \in registry : (e[1] = f[1]) <=> (e[2] = f[2])
    /\ Cardinality(registry) <= sfNextCalls

\* Two callers are inside Do at once with requests that differ in their
\* body only, each the owner of a call: next was invoked twice.
C14_Witness ==
    /\ sfNextCalls = 2
    /\ Cardinality(registry) = 2
    /\ \E p, q \in Callers :
          /\ sfpc[p] = "calling" /\ sfpc[q] = "calling"
          /\ sfReq[p].url = sfReq[q].url /\ sfReq[p].method = sfReq[q].method
          /\ sfReq[p].body = NewReader(<<"b">>) /\ sfReq[q].body = NewReader(<<"c">>)

\* The callers to which Process has handed the result of a call of next.
SFServed(p) == sfpc[p] \in {"released", "done"} /\ sfCall[p] # 0

\* C16_Original: Process hands the owner and every waiter exactly the
\* (response, error) pair that the invocation of next produced.
C16_Original ==
    \A p \in Callers : SFServed(p) => sfRet[p] = sfProduced[p]

\* C16: the callers of one call are handed one and the same result. It is
\* the response next produced, with a nil error, when next returned no
\* error; when next returned an error it is a nil response, whatever
\* response next returned, and that error wrapped in ErrRequestFailed.
C16_Forwarded ==
    \A p \in Callers :
        SFServed(p) =>
            /\ sfProduced[p].err = NoErr => sfRet[p] = sfProduced[p]
            /\ sfProduced[p].err # NoErr =>
                  /\ sfRet[p].resp = NoResp
                  /\ sfRet[p].err = sfProduced[p].err \cup {"ErrRequestFailed"}
            /\ \A q \in Callers :
                  (SFServed(q) /\ sfCall[q] = sfCall[p]) =>
                      (sfRet[q] = sfRet[p] /\ sfProduced[q] = sfProduced[p])

\* The owner of a call and a waiter on it have both returned from Process
\* after next returned a response together with an error.
C16_Witness ==
    \E p, q \in Callers :
        /\ p # q
        /\ sfpc[p] = "done" /\ sfpc[q] = "done"
        /\ sfCall[p] = sfCall[q] /\ sfCall[p] # 0
        /\ sfProduced[p] = [resp |-> 500, err |-> {"ErrBadStatus"}]
        /\ sfRet[q] = [resp |-> NoResp, err |-> {"ErrBadStatus", "ErrRequestFailed"}]

\* C17_Original / C17: a caller that reads the Body of the response Process
\* handed it to the end reads the whole body, whatever the other callers of
\* the same call have read from theirs.
C17_Original ==
    \A p \in Callers : sfEOF[p] => sfGot[p] = RespData

\* C15: once generateRequestKey has returned a key, req.Body reads to the
\* end as the bytes it held before the call (and a nil Body is still nil),
\* and what next reads from the owner's request is those bytes.
C15_BodyRestored ==
    \A p \in Callers :
        /\ sfpc[p] \in {"keyed", "waiting"} =>
              /\ sfBody[p].nil = sfReq[p].body.nil
              /\ ReadAll(sfBody[p]) = ReadAll(sfReq[p].body)
        /\ sfSent[p].sent => sfSent[p].data = ReadAll(sfReq[p].body)

\* The owner of a call for a request with a body has invoked next, which
\* read the body.
C15_Witness ==
    \E p \in Callers :
        /\ sfpc[p] = "calling"
        /\ sfReq[p].body = NewReader(<<"b">>)
        /\ sfSent[p] = [sent |-> TRUE, data |-> <<"b">>]

\* C24_Original: a caller whose context was cancelled while it waited on
\* another caller's call returns a cancellation error, and it has returned
\* while the owner of that call had not.
C24_Original ==
    \A p \in Callers :
        (sfCancelled[p] /\ sfpc[p] \in {"released", "done"}) =>
            /\ CtxErr \subseteq sfRet[p].err
            /\ \E q \in Callers : sfCall[q] = sfCall[p] /\ sfpc[q] = "calling"

\* generateRequestKey has returned a key to the caller for its request.
SFKeyed(p) == sfpc[p] # "idle" /\ sfKey[p] # <<>>

\* C37_Original: the key generateRequestKey returns depends on the content
\* of the request only: two requests with the same method, URL, headers
\* (two or more beside Authorization) and body have the same key, whatever
\* order the range over req.Header took.
C37_Original ==
    \A p, q \in Callers :
        (SFKeyed(p) /\ SFKeyed(q) /\ sfReq[p] = sfReq[q]) => sfKey[p] = sfKey[q]

\* ------------------------------------------------------------------------
\* middleware/circuitbreaker
\* ------------------------------------------------------------------------

\* Counts.clear
NoCounts ==
    [Requests |-> 0, TotalSuccesses |-> 0, TotalFailures |-> 0,
     ConsecutiveSuccesses |-> 0, ConsecutiveFailures |-> 0]

\* Counts.onRequest
OnRequest(c) == [c EXCEPT !.Requests = @ + 1]

\* Counts.onSuccess
OnSuccess(c) ==
    [c EXCEPT !.TotalSuccesses = @ + 1, !.ConsecutiveSuccesses = @ + 1,
              !.ConsecutiveFailures = 0]

\* Counts.onFailure
OnFailure(c) ==
    [c EXCEPT !.TotalFailures = @ + 1, !.ConsecutiveFailures = @ + 1,
              !.ConsecutiveSuccesses = 0]

ReadyToTrip_AnyFailure(c) == c.TotalFailures >= 1

\* Settings.ReadyToTrip of New: at least 3 requests and a failure ratio of
\* at least 0.6.
ReadyToTrip(c) == c.Requests >= 3 /\ c.TotalFailures * 10 >= 6 * c.Requests

IsSuccessful_ByStatus(out) == out.err = NoErr /\ out.resp < 500

\* Settings.IsSuccessful is nil: the default, err == nil.
IsSuccessful(out) == out.err = NoErr

\* The breaker as a record, for the functions of gobreaker that change it.
Breaker == [state |-> cbState, generation |-> cbGeneration, counts |-> cbCounts,
            expiry |-> cbExpiry]

\* CircuitBreaker.toNewGeneration
toNewGeneration(cb, now) ==
    [cb EXCEPT !.generation = @ + 1,
               !.counts = NoCounts,
               !.expiry = CASE cb.state = "closed" ->
                                 IF cbInterval = 0 THEN 0 ELSE now + cbInterval
                            [] cb.state = "open" -> now + CBTimeout
                            [] OTHER -> 0]

\* CircuitBreaker.setState
setState(cb, state, now) ==
    IF cb.state = state THEN cb
    ELSE toNewGeneration([cb EXCEPT !.state = state], now)

currentState_ExpiresEarly(cb, now) ==
    CASE cb.state = "closed" /\ cb.expiry # 0 /\ cb.expiry < now -> toNewGeneration(cb, now)
      [] cb.state = "open" /\ cb.expiry <= now -> setState(cb, "half-open", now)
      [] OTHER -> cb

\* CircuitBreaker.currentState
currentState(cb, now) ==
    CASE cb.state = "closed" /\ cb.expiry # 0 /\ cb.expiry < now -> toNewGeneration(cb, now)
      [] cb.state = "open" /\ cb.expiry < now -> setState(cb, "half-open", now)
      [] OTHER -> cb

onSuccess_CloseAtOnce(cb, now) ==
    CASE cb.state = "closed" -> [cb EXCEPT !.counts = OnSuccess(@)]
      [] cb.state = "half-open" -> setState([cb EXCEPT !.counts = OnSuccess(@)], "closed", now)
      [] OTHER -> cb

\* CircuitBreaker.onSuccess
onSuccess(cb, now) ==
    CASE cb.state = "closed" -> [cb EXCEPT !.counts = OnSuccess(@)]
      [] cb.state = "half-open" ->
            LET c == [cb EXCEPT !.counts = OnSuccess(@)]
            IN  IF c.counts.ConsecutiveSuccesses >= cbMaxRequests
                THEN setState(c, "closed", now)
                ELSE c
      [] OTHER -> cb

\* CircuitBreaker.onFailure
onFailure(cb, now) ==
    CASE cb.state = "closed" ->
            LET c == [cb EXCEPT !.counts = OnFailure(@)]
            IN  IF ReadyToTrip(c.counts) THEN setState(c, "open", now) ELSE c
      [] cb.state = "half-open" -> setState(cb, "open", now)
      [] OTHER -> cb

Rejection_OpenOnly(cb) ==
    IF cb.state = "open" THEN {"gobreaker.ErrOpenState"} ELSE NoErr

\* The error beforeRequest returns for the breaker as currentState left it.
Rejection(cb) ==
    IF cb.state = "open" THEN {"gobreaker.ErrOpenState"}
    ELSE IF cb.state = "half-open" /\ cb.counts.Requests >= cbMaxRequests
    THEN {"gobreaker.ErrTooManyRequests"}
    ELSE NoErr

\* What Process makes of the error Execute returned: the switch compares it
\* with gobreaker's two errors, whether the breaker or next returned it.
CBProcessError(err) ==
    IF err = {"gobreaker.ErrOpenState"} THEN Wrap("ErrCircuitOpen", err)
    ELSE IF err = {"gobreaker.ErrTooManyRequests"} THEN Wrap("ErrCircuitExhausted", err)
    ELSE err

\* What Process returns for the result and error Execute returned: a nil
\* response with the wrapped error on the two cases of the switch, and the
\* result and error as they are otherwise.
CBProcessResult(out) ==
    IF CBProcessError(out.err) # out.err
    THEN [resp |-> NoResp, err |-> CBProcessError(out.err)]
    ELSE out

RECURSIVE SumOver(_, _)
SumOver(f, S) ==
    IF S = {} THEN 0
    ELSE LET x == CHOOSE y \in S : TRUE IN f[x] + SumOver(f, S \ {x})

\* The Process calls made so far.
CBCallsMade == SumOver(cbStarted, CBCallers)

SetBreaker(cb) ==
    /\ cbState' = cb.state
    /\ cbGeneration' = cb.generation
    /\ cbCounts' = cb.counts
    /\ cbExpiry' = cb.expiry

CBIdle ==
    /\ cbState = "closed"
    /\ cbGeneration = 1
    /\ cbCounts = NoCounts
    /\ cbNow = 1
    /\ cbExpiry = (IF cbInterval = 0 THEN 0 ELSE 1 + cbInterval)
    /\ cbpc = [p \in CBCallers |-> "idle"]
    /\ cbBefore = [p \in CBCallers |-> 0]
    /\ cbRet = [p \in CBCallers |-> NoOutcome]
    /\ cbNextCalls = 0
    /\ cbStarted = [p \in CBCallers |-> 0]
    /\ cbNext = [p \in CBCallers |-> <<>>]

\* circuitbreaker.New: gobreaker.NewCircuitBreaker takes MaxRequests 0 as 1.
CBInit ==
    /\ cbMaxRequests \in 1..CBMaxProbes
    /\ cbInterval \in {0, CBInterval}
    /\ CBIdle

\* Process calls Execute: beforeRequest rejects the call, or counts it and
\* next is invoked.
CBBeforeRequest(p) ==
    /\ cbpc[p] \in {"idle", "done"}
    /\ CBCallsMade < CBMaxCalls
    /\ cbStarted' = [cbStarted EXCEPT ![p] = @ + 1]
    /\ cbNext' = [cbNext EXCEPT ![p] = <<>>]
    /\ LET cb == currentState(Breaker, cbNow)
       IN  IF Rejection(cb) # NoErr
           THEN /\ SetBreaker(cb)
                /\ cbpc' = [cbpc EXCEPT ![p] = "done"]
                /\ cbRet' = [cbRet EXCEPT ![p] =
                                [resp |-> NoResp, err |-> CBProcessError(Rejection(cb))]]
                /\ cbBefore' = [cbBefore EXCEPT ![p] = cb.generation]
                /\ UNCHANGED cbNextCalls
           ELSE /\ SetBreaker([cb EXCEPT !.counts = OnRequest(@)])
                /\ cbpc' = [cbpc EXCEPT ![p] = "calling"]
                /\ cbRet' = [cbRet EXCEPT ![p] = NoOutcome]
                /\ cbBefore' = [cbBefore EXCEPT ![p] = cb.generation]
                /\ cbNextCalls' = cbNextCalls + 1
    /\ UNCHANGED <<cbMaxRequests, cbInterval, cbNow>>
    /\ UNCHANGED nonCBVars

\* next returns: afterRequest counts the outcome, unless the generation has
\* changed meanwhile, and Process returns what next returned.
CBAfterRequest(p) ==
    /\ cbpc[p] = "calling"
    /\ \E out \in CBOutcomes :
        LET cb == currentState(Breaker, cbNow)
        IN  /\ SetBreaker(IF cb.generation # cbBefore[p] THEN cb
                          ELSE IF IsSuccessful(out) THEN onSuccess(cb, cbNow)
                          ELSE onFailure(cb, cbNow))
            /\ cbRet' = [cbRet EXCEPT ![p] = CBProcessResult(out)]
            /\ cbNext' = [cbNext EXCEPT ![p] = <<out>>]
    /\ cbpc' = [cbpc EXCEPT ![p] = "done"]
    /\ UNCHANGED <<cbMaxRequests, cbInterval, cbNow, cbBefore, cbNextCalls, cbStarted>>
    /\ UNCHANGED nonCBVars

\* Time passes.
CBTick ==
    /\ cbNow < CBMaxTime + 1
    /\ cbNow' = cbNow + 1
    /\ UNCHANGED <<cbMaxRequests, cbInterval, cbState, cbGeneration, cbCounts,
                   cbExpiry, cbpc, cbBefore, cbRet, cbNextCalls, cbStarted, cbNext>>
    /\ UNCHANGED nonCBVars

NextCB ==
    \/ \E p \in CBCallers : CBBeforeRequest(p)
    \/ \E p \in CBCallers : CBAfterRequest(p)
    \/ CBTick

\* A caller whose failed call is being counted by a closed breaker in the
\* generation the call was admitted in.
CBFailureCounted(p) ==
    /\ cbpc[p] = "calling" /\ cbpc'[p] = "done"
    /\ cbRet'[p].err # NoErr
    /\ cbState = "closed"
    /\ ~(cbExpiry # 0 /\ cbExpiry < cbNow)
    /\ cbBefore[p] = cbGeneration

\* A caller entering Process while the breaker is open and its cool-down
\* has not elapsed.
CBEntersWhileOpen(p) ==
    /\ cbStarted'[p] = cbStarted[p] + 1
    /\ cbState = "open"
    /\ ~(cbExpiry < cbNow)

\* C3: the breaker opens when a failed call leaves the counts of the closed
\* breaker with at least 3 requests of which at least 0.6 failed, and a call
\* that arrives while it is open (before the cool-down has elapsed) gets
\* ErrCircuitOpen without next being invoked.
C3_OpensWhenTripped ==
    [][ \A p \in CBCallers :
          /\ ( /\ CBFailureCounted(p)
               /\ cbCounts.Requests >= 3
               /\ (cbCounts.TotalFailures + 1) * 10 >= 6 * cbCounts.Requests )
             => (cbState' = "open" /\ cbExpiry' = cbNow + CBTimeout)
          /\ ( /\ CBFailureCounted(p)
               /\ ~( /\ cbCounts.Requests >= 3
                     /\ (cbCounts.TotalFailures + 1) * 10 >= 6 * cbCounts.Requests ) )
             => cbState' = "closed"
          /\ CBEntersWhileOpen(p)
             => ( /\ cbpc'[p] = "done"
                  /\ "ErrCircuitOpen" \in cbRet'[p].err
                  /\ cbRet'[p].resp = NoResp
                  /\ cbNextCalls' = cbNextCalls
                  /\ cbState' = "open" ) ]_vars

\* The breaker has opened after three calls of which two failed, and the
\* fourth call was rejected without reaching next.
C3_Witness ==
    /\ cbState = "open"
    /\ cbNextCalls = 3
    /\ CBCallsMade = 4
    /\ \E p \in CBCallers :
          cbpc[p] = "done" /\ cbRet[p].err = {"ErrCircuitOpen", "gobreaker.ErrOpenState"}
    /\ \E q \in CBCallers : cbpc[q] = "done" /\ cbRet[q].err = {"ErrFailed"}

\* A caller enters Process.
CBEnters(p) == cbStarted'[p] = cbStarted[p] + 1

\* The outcome of a caller's call is being counted by the half-open breaker
\* in the generation the call was admitted in: a probe call returns.
CBProbeReturns(p) ==
    /\ cbpc[p] = "calling" /\ cbpc'[p] = "done"
    /\ cbState = "half-open"
    /\ cbBefore[p] = cbGeneration

CBInFlight == {p \in CBCallers : cbpc[p] = "calling" /\ cbBefore[p] = cbGeneration}

\* C19: a half-open breaker has let through at most maxRequests calls, so
\* at most maxRequests of them are with next at once; a call that arrives
\* when it has let maxRequests through gets ErrCircuitExhausted, next is not
\* invoked and the breaker is left as it was; a call that arrives before is
\* let through.
C19_Exhausted ==
    [][ /\ cbState = "half-open" =>
              /\ cbCounts.Requests <= cbMaxRequests
              /\ Cardinality(CBInFlight) <= cbMaxRequests
              /\ cbCounts.Requests >= cbMaxRequests => CBInFlight # {}
        /\ \A p \in CBCallers :
              /\ ( /\ CBEnters(p) /\ cbState = "half-open"
                   /\ cbCounts.Requests >= cbMaxRequests )
                    => ( /\ cbpc'[p] = "done"
                         /\ cbRet'[p] = [resp |-> NoResp,
                                          err |-> {"ErrCircuitExhausted",
                                                   "gobreaker.ErrTooManyRequests"}]
                         /\ cbNextCalls' = cbNextCalls
                         /\ <<cbState', cbGeneration', cbCounts', cbExpiry'>>
                                = <<cbState, cbGeneration, cbCounts, cbExpiry>> )
              /\ ( /\ CBEnters(p) /\ cbState = "half-open"
                   /\ cbCounts.Requests < cbMaxRequests )
                    => ( /\ cbpc'[p] = "calling"
                         /\ cbNextCalls' = cbNextCalls + 1
                         /\ cbCounts' = OnRequest(cbCounts) ) ]_vars

\* With maxRequests 1 the breaker is half-open with its one probe call at
\* next, and the call that arrived meanwhile was turned away.
C19_Witness ==
    /\ cbMaxRequests = 1
    /\ cbState = "half-open"
    /\ cbCounts.Requests = 1
    /\ \E p, q \in CBCallers :
          /\ cbpc[p] = "calling" /\ cbBefore[p] = cbGeneration
          /\ cbpc[q] = "done"
          /\ cbRet[q].err = {"ErrCircuitExhausted", "gobreaker.ErrTooManyRequests"}

\* C20: a call that arrives while the breaker is open and the cool-down has
\* not elapsed gets ErrCircuitOpen (with no response), next is not invoked,
\* and the breaker is left as it was: state, generation, expiry and every
\* tally of its counts.
C20_OpenRejects ==
    [][ \A p \in CBCallers :
          CBEntersWhileOpen(p)
             => ( /\ cbpc'[p] = "done"
                  /\ cbRet'[p] = [resp |-> NoResp,
                                   err |-> {"ErrCircuitOpen", "gobreaker.ErrOpenState"}]
                  /\ cbNextCalls' = cbNextCalls
                  /\ cbCounts' = cbCounts
                  /\ cbCounts' = NoCounts
                  /\ <<cbState', cbGeneration', cbExpiry'>>
                        = <<cbState, cbGeneration, cbExpiry>> ) ]_vars

\* The breaker is open, its cool-down over at the next tick, and both
\* callers were turned away with ErrCircuitOpen; its tallies are zero.
C20_Witness ==
    /\ cbState = "open"
    /\ cbNow = cbExpiry
    /\ cbCounts = NoCounts
    /\ cbNextCalls = 3
    /\ \A p \in CBCallers :
          cbpc[p] = "done" /\ cbRet[p].err = {"ErrCircuitOpen", "gobreaker.ErrOpenState"}

\* C21_Original: a call of Process in which next was invoked has returned
\* exactly the response and the error next returned, and a call that has
\* returned a circuit-open or circuit-exhausted error did not invoke next.
C21_Original ==
    \A p \in CBCallers :
        cbpc[p] = "done" =>
            /\ cbNext[p] # <<>> => cbRet[p] = cbNext[p][1]
            /\ {"ErrCircuitOpen", "ErrCircuitExhausted"} \cap cbRet[p].err # {}
                    => cbNext[p] = <<>>

\* next returns to caller p in this step.
CBNextReturns(p) == cbpc[p] = "calling" /\ cbpc'[p] = "done"

\* The call of caller p was admitted in the generation the breaker is in,
\* and that generation has not expired: afterRequest counts its outcome.
CBLive(p) ==
    /\ cbBefore[p] = cbGeneration
    /\ ~(cbState = "closed" /\ cbExpiry # 0 /\ cbExpiry < cbNow)
    /\ ~(cbState = "open" /\ cbExpiry < cbNow)

\* C40: the breaker counts a call as a failure exactly when next returned
\* an error. A call in which next returned a response and no error, a 500
\* included, adds no failure and never opens the breaker: counted by a
\* closed breaker it adds a success, by a half-open one it leaves the breaker
\* half-open or closes it. A call in which next returned an error adds a
\* failure to a closed breaker, or opens it, and opens a half-open one.
C40_FailureIsError ==
    [][ \A p \in CBCallers :
          CBNextReturns(p) =>
              LET out == cbNext'[p][1]
              IN  /\ out.err = NoErr =>
                        /\ cbCounts'.TotalFailures <= cbCounts.TotalFailures
                        /\ cbState' = "open" => cbState = "open"
                  /\ (out.err = NoErr /\ CBLive(p) /\ cbState = "closed") =>
                        /\ cbState' = "closed"
                        /\ cbCounts'.TotalSuccesses = cbCounts.TotalSuccesses + 1
                        /\ cbCounts'.TotalFailures = cbCounts.TotalFailures
                        /\ cbCounts'.ConsecutiveFailures = 0
                  /\ (out.err = NoErr /\ CBLive(p) /\ cbState = "half-open") =>
                        cbState' \in {"half-open", "closed"}
                  /\ (out.err # NoErr /\ CBLive(p) /\ cbState = "closed") =>
                        \/ cbState' = "open"
                        \/ /\ cbState' = "closed"
                           /\ cbCounts'.TotalFailures = cbCounts.TotalFailures + 1
                           /\ cbCounts'.TotalSuccesses = cbCounts.TotalSuccesses
                  /\ (out.err # NoErr /\ CBLive(p) /\ cbState = "half-open") =>
                        cbState' = "open" ]_vars

\* Of three calls counted by the closed breaker, the latest of either caller
\* got a 500 response without an error from next: the breaker has counted
\* one failure and two successes and is closed.
C40_Witness ==
    /\ cbState = "closed"
    /\ cbCounts.Requests = 3
    /\ cbCounts.TotalFailures = 1
    /\ cbCounts.TotalSuccesses = 2
    /\ \A p \in CBCallers :
          /\ cbpc[p] = "done"
          /\ cbNext[p] = <<[resp |-> 500, err |-> NoErr]>>
          /\ cbRet[p] = [resp |-> 500, err |-> NoErr]

\* ------------------------------------------------------------------------
\* pkg/client/middleware: Chain
\* ------------------------------------------------------------------------

PrioritizedMiddleware(m, priority) == [Middleware |-> m, Priority |-> priority]

Front(s) == SubSeq(s, 1, Len(s) - 1)

Last(s) == s[Len(s)]

\* The less function sortMiddlewares hands to sort.Slice.
Less_Ascending(x, y) == x.Priority < y.Priority

Less(x, y) == x.Priority > y.Priority

\* One pass of the insertion sort: x moves left past the entries it is less
\* than.
RECURSIVE Insert(_, _)
Insert(s, x) ==
    IF s # <<>> /\ Less(x, Last(s))
    THEN Append(Insert(Front(s), x), Last(s))
    ELSE Append(s, x)

RECURSIVE SortPrefix(_, _)
SortPrefix(ms, n) == IF n = 0 THEN <<>> ELSE Insert(SortPrefix(ms, n - 1), ms[n])

\* insertionSortLessFunc over a whole slice.
insertionSort(ms) == SortPrefix(ms, Len(ms))

Swap(s, i, j) == [s EXCEPT ![i] = s[j], ![j] = s[i]]

\* order2 of sort.Slice: the pair (x, y) in the order of their entries, and
\* whether it was exchanged.
order2(s, x, y) ==
    IF Less(s[y], s[x]) THEN [lo |-> y, hi |-> x, swaps |-> 1]
                        ELSE [lo |-> x, hi |-> y, swaps |-> 0]

\* choosePivot of sort.Slice for a slice of 8 to 49 entries: the median of
\* the entries at the three quarters, and how many exchanges finding it took.
choosePivot(s) ==
    LET q  == Len(s) \div 4
        o1 == order2(s, q + 1, 2 * q + 1)
        o2 == order2(s, o1.hi, 3 * q + 1)
        o3 == order2(s, o1.lo, o2.lo)
    IN  [pivot |-> o3.hi, swaps |-> o1.swaps + o2.swaps + o3.swaps]

\* partialInsertionSort of sort.Slice for a slice of fewer than 50 entries:
\* it moves nothing and reports whether the slice is in order.
partialInsertionSort(s) ==
    \A i \in 2..Len(s) : ~Less(s[i], s[i - 1])

RECURSIVE ScanUp(_, _, _, _)
ScanUp(s, i, j, a) ==
    IF i <= j /\ Less(s[i], s[a]) THEN ScanUp(s, i + 1, j, a) ELSE i

RECURSIVE ScanDown(_, _, _, _)
ScanDown(s, i, j, a) ==
    IF i <= j /\ ~Less(s[j], s[a]) THEN ScanDown(s, i, j - 1, a) ELSE j

RECURSIVE PartitionLoop(_, _, _, _)
PartitionLoop(s, i, j, a) ==
    LET i2 == ScanUp(s, i, j, a)
        j2 == ScanDown(s, i2, j, a)
    IN  IF i2 > j2
        THEN [data |-> Swap(s, j2, a), mid |-> j2]
        ELSE PartitionLoop(Swap(s, i2, j2), i2 + 1, j2 - 1, a)

\* partition of sort.Slice: the pivot goes to the front, the entries less
\* than it are exchanged to the left, and the pivot lands between the halves.
partition(s, pivot) == PartitionLoop(Swap(s, 1, pivot), 2, Len(s), 1)

\* pdqsort of sort.Slice on a slice of maxInsertion + 1 entries: a slice
\* found in order is left alone; any other is partitioned once around the
\* pivot, and both halves, of at most maxInsertion entries, are sorted by
\* insertion.
pdqsort(ms) ==
    LET c == choosePivot(ms)
    IN  IF c.swaps = 0 /\ partialInsertionSort(ms)
        THEN ms
        ELSE LET p == partition(ms, c.pivot)
             IN  insertionSort(SubSeq(p.data, 1, p.mid - 1))
                    \o <<p.data[p.mid]>>
                    \o insertionSort(SubSeq(p.data, p.mid + 1, Len(ms)))

\* Chain.sortMiddlewares: sort.Slice sorts a slice of at most maxInsertion
\* entries by insertion and a longer one by pdqsort.
sortMiddlewares(ms) ==
    IF Len(ms) <= maxInsertion THEN insertionSort(ms) ELSE pdqsort(ms)

addOrReplace_KeepPriority(ms, priority, m) ==
    IF \E i \in 1..Len(ms) : ms[i].Middleware.type = m.type
    THEN LET i == CHOOSE k \in 1..Len(ms) :
                    /\ ms[k].Middleware.type = m.type
                    /\ \A l \in 1..(k - 1) : ms[l].Middleware.type # m.type
         IN  [ms EXCEPT ![i] = PrioritizedMiddleware(m, ms[i].Priority)]
    ELSE Append(ms, PrioritizedMiddleware(m, priority))

\* Chain.addOrReplace
addOrReplace(ms, priority, m) ==
    IF \E i \in 1..Len(ms) : ms[i].Middleware.type = m.type
    THEN LET i == CHOOSE k \in 1..Len(ms) :
                    /\ ms[k].Middleware.type = m.type
                    /\ \A l \in 1..(k - 1) : ms[l].Middleware.type # m.type
         IN  [ms EXCEPT ![i] = PrioritizedMiddleware(m, priority)]
    ELSE Append(ms, PrioritizedMiddleware(m, priority))

RECURSIVE AddAll(_, _, _)
AddAll(ms, priority, args) ==
    IF args = <<>> THEN ms
    ELSE AddAll(addOrReplace(ms, priority, Head(args)), priority, Tail(args))

\* Chain.Then
Then(ms, priority, args) == sortMiddlewares(AddAll(ms, priority, args))

\* NewChain
NewChain(entries) == sortMiddlewares(entries)

\* Chain.Middlewares
Middlewares == [i \in 1..Len(middlewares) |-> middlewares[i].Middleware]

\* The arguments of a Then call: one policy or two.
ThenArgs ==
    {<<m>> : m \in ChainMiddlewares}
        \cup {<<m, n>> : m \in ChainMiddlewares, n \in ChainMiddlewares}

\* The arguments of NewChain: no entry, one entry, or two entries. NewChain
\* takes what it is given, two entries of one type included; Then builds
\* every other chain.
ChainEntries ==
    {PrioritizedMiddleware(m, pr) : m \in ChainMiddlewares, pr \in ChainPriorities}

HeaderEntries == {e \in ChainEntries : e.Middleware.type = "header"}

NewChainArgs ==
    {<<>>} \cup {<<e>> : e \in ChainEntries}
           \cup {<<e, f>> : e \in HeaderEntries, f \in HeaderEntries}

\* Chain.performRequest, given what http.Client.Do answered.
performRequest(r) ==
    IF r.err # NoErr
    THEN IF "context.DeadlineExceeded" \in r.err
         THEN [resp |-> NoResp, err |-> Wrap("ErrTimeout", r.err)]
         ELSE [resp |-> NoResp, err |-> Wrap("ErrNetwork", r.err)]
    ELSE r

PolicyResult_WrapAll(type, out, cancelled) ==
    SFProcessResult(out.resp, out.err)

\* What a policy returns once next has handed it `out` (a RetryMiddleware:
\* once it has given up).
PolicyResult(type, out, cancelled) ==
    CASE type = "singleflight" -> SFProcessResult(out.resp, out.err)
      [] type = "retry" ->
            LET c == handleRetryError("plain", out.resp, out.err)
            IN  IF c.kind = "temp" /\ cancelled
                THEN ProcessResult("plain", out.resp, CtxErr)
                ELSE ProcessResult("plain", out.resp, c.e)
      [] OTHER -> out

\* A RetryMiddleware that next has handed `out` invokes next again.
RetriesAgain(type, out, tries, cancelled) ==
    /\ type = "retry"
    /\ handleRetryError("plain", out.resp, out.err).kind = "temp"
    /\ ~cancelled
    /\ TriesLeft(tries)

NoShort == [idx |-> 0, err |-> NoErr, at |-> 0, terminal |-> 0]

NoThen == [before |-> <<>>, priority |-> 0, args |-> <<>>]

\* The types of the policies in a sequence of entries, or of policies.
EntryTypes(ms) == {ms[i].Middleware.type : i \in 1..Len(ms)}

ArgTypes(args) == {args[i].type : i \in 1..Len(args)}

ChainIdle ==
    /\ chpc = "idle"
    /\ chIdx = 0
    /\ chOut = NoOutcome
    /\ chTries = [i \in 1..Len(middlewares) |-> 0]
    /\ chCancelled = FALSE
    /\ chTrace = <<>>
    /\ chTerminal = 0
    /\ chShort = NoShort
    /\ chRerun = FALSE
    /\ chThen = NoThen
    /\ chLongReplaced = 0
    /\ chFailed = <<>>

ChainInit ==
    /\ \E entries \in NewChainArgs :
          /\ middlewares = NewChain(entries)
          /\ chAdded = EntryTypes(entries)
    /\ ChainIdle

\* A chain that will hold the policies of LongMiddlewares is built empty, as
\* NewClient builds it.
LongChainInit ==
    /\ middlewares = NewChain(<<>>)
    /\ chAdded = {}
    /\ ChainIdle

ChainFrame == UNCHANGED nonChainVars

\* Chain.Then. Chain has no lock, and the chain is built before it is used:
\* Then is called before the first request.
ChainThen ==
    /\ chpc = "idle"
    /\ \E priority \in ChainPriorities, args \in ThenArgs :
          /\ middlewares' = Then(middlewares, priority, args)
          /\ chAdded' = chAdded \cup ArgTypes(args)
    /\ chTries' = [i \in 1..Len(middlewares') |-> 0]
    /\ UNCHANGED <<chpc, chIdx, chOut, chCancelled, chTrace, chTerminal, chShort,
                   chRerun, chThen, chLongReplaced, chFailed>>
    /\ ChainFrame

\* Chain.Then on a long chain, one policy a call (WithMiddleware): the
\* policies are added one type after the other, and policies of types in the
\* chain are given again once the chain is complete.
ChainThenLong ==
    /\ chpc = "idle"
    /\ \E priority \in ChainPriorities, m \in LongMiddlewares :
          /\ \/ /\ m.type = Len(middlewares) + 1
                /\ (m.type <= LongLowTypes => priority = 1)
             \/ /\ Len(middlewares) = maxInsertion + 1
                /\ chLongReplaced < LongMaxReplace
          /\ middlewares' = Then(middlewares, priority, <<m>>)
          /\ chAdded' = chAdded \cup {m.type}
          /\ chThen' = [before |-> middlewares, priority |-> priority, args |-> <<m>>]
          /\ chLongReplaced' = IF m.type \in EntryTypes(middlewares)
                               THEN chLongReplaced + 1 ELSE chLongReplaced
    /\ chTries' = [i \in 1..Len(middlewares') |-> 0]
    /\ UNCHANGED <<chpc, chIdx, chOut, chCancelled, chTrace, chTerminal, chShort,
                   chRerun, chFailed>>
    /\ ChainFrame

\* Chain.Process is entered.
ChainProcess ==
    /\ chpc \in {"idle", "done"}
    /\ chpc' = "down"
    /\ chIdx' = 1
    /\ chOut' = NoOutcome
    /\ chTries' = [i \in 1..Len(middlewares) |-> 0]
    /\ chCancelled' = FALSE
    /\ chTrace' = <<>>
    /\ chTerminal' = 0
    /\ chShort' = NoShort
    /\ chRerun' = FALSE
    /\ chFailed' = <<>>
    /\ UNCHANGED <<middlewares, chAdded, chThen, chLongReplaced>>
    /\ ChainFrame

\* The result `out` goes back from entry chIdx to the one before it, or to
\* the caller of Chain.Process.
ChainUnwind(out) ==
    /\ chOut' = out
    /\ chIdx' = chIdx - 1
    /\ chpc' = IF chIdx - 1 = 0 THEN "done" ELSE "up"

\* processMiddleware invokes the entry at chIdx, which calls next.
ChainPolicyCallsNext ==
    /\ chpc = "down"
    /\ chIdx <= Len(middlewares)
    /\ chTrace' = Append(chTrace, chIdx)
    /\ chTries' = [chTries EXCEPT ![chIdx] = 0]
    /\ chIdx' = chIdx + 1
    /\ UNCHANGED <<chAdded, chThen, chLongReplaced>>
    /\ UNCHANGED <<middlewares, chpc, chOut, chCancelled, chTerminal,
                   chShort, chRerun, chFailed>>
    /\ ChainFrame

\* processMiddleware invokes the entry at chIdx, a RateLimiterMiddleware
\* whose Wait fails: it returns the error without calling next.
ChainPolicyFails ==
    /\ chpc = "down"
    /\ chIdx <= Len(middlewares)
    /\ middlewares[chIdx].Middleware.type = "ratelimit"
    /\ chTrace' = Append(chTrace, chIdx)
    /\ \E e \in RateLimitErrors(chCancelled) :
          /\ ChainUnwind([resp |-> NoResp, err |-> e])
          /\ chShort' = IF chShort.idx = 0
                        THEN [idx |-> chIdx, err |-> e, at |-> Len(chTrace'),
                              terminal |-> chTerminal]
                        ELSE chShort
    /\ chFailed' = Append(chFailed, chIdx)
    /\ UNCHANGED <<chAdded, chThen, chLongReplaced>>
    /\ UNCHANGED <<middlewares, chTries, chCancelled, chTerminal, chRerun>>
    /\ ChainFrame

ChainPerformRequest_Twice ==
    /\ chpc = "down"
    /\ chIdx = Len(middlewares) + 1
    /\ chTerminal' = chTerminal + 2
    /\ \E r \in DoResults : ChainUnwind(performRequest(r))
    /\ UNCHANGED <<chAdded, chThen, chLongReplaced>>
    /\ UNCHANGED <<middlewares, chTries, chCancelled, chTrace, chShort, chRerun, chFailed>>
    /\ ChainFrame

\* processMiddleware has reached the end of the chain (or the chain is
\* empty): performRequest.
ChainPerformRequest ==
    /\ chpc = "down"
    /\ chIdx = Len(middlewares) + 1
    /\ chTerminal' = chTerminal + 1
    /\ \E r \in DoResults : ChainUnwind(performRequest(r))
    /\ UNCHANGED <<chAdded, chThen, chLongReplaced>>
    /\ UNCHANGED <<middlewares, chTries, chCancelled, chTrace, chShort, chRerun, chFailed>>
    /\ ChainFrame

\* next returns to the entry at chIdx, which returns in turn.
ChainPolicyReturns ==
    /\ chpc = "up"
    /\ LET type == middlewares[chIdx].Middleware.type
       IN  /\ ~RetriesAgain(type, chOut, chTries[chIdx], chCancelled)
           /\ ChainUnwind(PolicyResult(type, chOut, chCancelled))
    /\ UNCHANGED <<chAdded, chThen, chLongReplaced>>
    /\ UNCHANGED <<middlewares, chTries, chCancelled, chTrace, chTerminal,
                   chShort, chRerun, chFailed>>
    /\ ChainFrame

ChainRetryAgain_FromTop ==
    /\ chpc = "up"
    /\ RetriesAgain(middlewares[chIdx].Middleware.type, chOut, chTries[chIdx], chCancelled)
    /\ chTries' = [chTries EXCEPT ![chIdx] = @ + 1]
    /\ chpc' = "down"
    /\ chIdx' = 1
    /\ chRerun' = (chRerun \/ chShort.idx # 0)
    /\ UNCHANGED <<chAdded, chThen, chLongReplaced>>
    /\ UNCHANGED <<middlewares, chOut, chCancelled, chTrace, chTerminal, chShort, chFailed>>
    /\ ChainFrame

\* next returns a temporary failure to a RetryMiddleware at chIdx, which
\* invokes next again.
ChainRetryAgain ==
    /\ chpc = "up"
    /\ RetriesAgain(middlewares[chIdx].Middleware.type, chOut, chTries[chIdx], chCancelled)
    /\ chTries' = [chTries EXCEPT ![chIdx] = @ + 1]
    /\ chpc' = "down"
    /\ chIdx' = chIdx + 1
    /\ chRerun' = (chRerun \/ chShort.idx # 0)
    /\ UNCHANGED <<chAdded, chThen, chLongReplaced>>
    /\ UNCHANGED <<middlewares, chOut, chCancelled, chTrace, chTerminal, chShort, chFailed>>
    /\ ChainFrame

\* The caller cancels the request's context.
ChainCancel ==
    /\ chpc \in {"down", "up"}
    /\ ~chCancelled
    /\ chCancelled' = TRUE
    /\ UNCHANGED <<chAdded, chThen, chLongReplaced>>
    /\ UNCHANGED <<middlewares, chpc, chIdx, chOut, chTries, chTrace,
                   chTerminal, chShort, chRerun, chFailed>>
    /\ ChainFrame

\* The configuration of a long chain.
NextLongChain == ChainThenLong

NextChain ==
    \/ ChainThen
    \/ ChainProcess
    \/ ChainPolicyCallsNext
    \/ ChainPolicyFails
    \/ ChainPerformRequest
    \/ ChainPolicyReturns
    \/ ChainRetryAgain
    \/ ChainCancel

\* The chain lists its entries by descending priority.
ChainSorted ==
    \A i \in 1..(Len(middlewares) - 1) :
        middlewares[i].Priority >= middlewares[i + 1].Priority

\* C4_Original / C4: whatever NewChain and Then calls built the chain, its
\* entries (and so Middlewares()) are listed by non-increasing priority, and
\* Chain.Process invokes them in that order: the first entry invoked is the
\* first of the list, and an entry is only ever invoked right after the one
\* before it has called next, so no invocation goes to an entry of higher
\* priority than an entry that has not yet been invoked.
C4_PriorityOrder ==
    /\ ChainSorted
    /\ Len(Middlewares) = Len(middlewares)
    /\ \A k \in 1..Len(chTrace) :
          /\ chTrace[k] \in 1..Len(middlewares)
          /\ k = 1 => chTrace[k] = 1
          /\ k > 1 => /\ chTrace[k] <= chTrace[k - 1] + 1
                      /\ middlewares[chTrace[k]].Priority
                            <= middlewares[chTrace[k] - 1].Priority
    /\ chTerminal > 0 =>
          \A i \in 1..Len(middlewares) : \E k \in 1..Len(chTrace) : chTrace[k] = i

\* A chain of three entries of two priorities, built by NewChain and Then,
\* has processed a request: the entries were invoked first to last.
C4_Witness ==
    /\ chpc = "done"
    /\ Len(middlewares) = 3
    /\ middlewares[1].Priority = 2 /\ middlewares[3].Priority = 1
    /\ chTrace = <<1, 2, 3>>
    /\ chTerminal = 1

\* Where the entry of the given type stands in a chain that has one.
PosOf(ms, type) == CHOOSE i \in 1..Len(ms) : ms[i].Middleware.type = type

\* The entries of the chain before the last Then call that the call did not
\* replace.
Kept == {i \in 1..Len(chThen.before) :
            chThen.before[i].Middleware.type \notin ArgTypes(chThen.args)}

\* C11_Original / C11: entries of equal priority stand (and so execute) in
\* the order they were inserted, and a Then call never exchanges two entries
\* of equal priority that were in the chain before it. A long chain gets its
\* types in ascending order, so before any entry is replaced a lower type
\* was inserted earlier.
C11_Original ==
    /\ chLongReplaced = 0 =>
          \A i, j \in 1..Len(middlewares) :
              (i < j /\ middlewares[i].Priority = middlewares[j].Priority)
                  => middlewares[i].Middleware.type < middlewares[j].Middleware.type
    /\ chThen # NoThen =>
          \A i, j \in Kept :
              (i < j /\ chThen.before[i].Priority = chThen.before[j].Priority)
                  => PosOf(middlewares, chThen.before[i].Middleware.type)
                        < PosOf(middlewares, chThen.before[j].Middleware.type)

\* The first entry of the given type, the one addOrReplace replaces.
FirstOf(ms, type) ==
    CHOOSE i \in 1..Len(ms) :
        /\ ms[i].Middleware.type = type
        /\ \A k \in 1..(i - 1) : ms[k].Middleware.type # type

\* The last policy of the given type among the arguments of a Then call.
LastArg(args, type) ==
    LET k == CHOOSE i \in 1..Len(args) :
                /\ args[i].type = type
                /\ \A l \in (i + 1)..Len(args) : args[l].type # type
    IN  args[k]

\* The types of the entries, in chain order.
TypeSeq(ms) == [i \in 1..Len(ms) |-> ms[i].Middleware.type]

\* The last Then call was given only policies of types in the chain.
ThenReplaced ==
    /\ chThen # NoThen
    /\ ArgTypes(chThen.args) \subseteq EntryTypes(chThen.before)

\* The entries the last Then call replaced had the priority it was given.
SamePriority ==
    \A t \in ArgTypes(chThen.args) :
        chThen.before[FirstOf(chThen.before, t)].Priority = chThen.priority

C13_Original ==
    /\ \A i, j \in 1..Len(middlewares) :
          i # j => middlewares[i].Middleware.type # middlewares[j].Middleware.type
    /\ Len(middlewares) = Cardinality(chAdded)

\* The entries ahead of entry i in the chain.
Ahead(i) == {middlewares[k].Middleware.type : k \in 1..(i - 1)}

\* Since the policy named by chShort returned, nothing was invoked.
NothingAfterShort ==
    /\ chpc \in {"up", "done"}
    /\ Len(chTrace) = chShort.at
    /\ chTrace[chShort.at] = chShort.idx
    /\ chTerminal = chShort.terminal

\* C7_Original: once a policy has returned an error without calling next, no
\* policy after it and no transport call is executed for that request, and
\* Chain.Process returns that error.
C7_Original ==
    chShort.idx # 0 =>
        /\ NothingAfterShort
        /\ chpc = "done" => chOut = [resp |-> NoResp, err |-> chShort.err]

\* C7: when a policy returns an error without calling next, that invocation
\* executes no later policy and no transport call, and the error goes to the
\* policy ahead of it. Chain.Process returns it unchanged when the policies
\* ahead hand on what next returned; a SingleFlightMiddleware ahead wraps it,
\* and a RetryMiddleware ahead may invoke the rest of the chain again or
\* return the context's error in its place.
C7_ShortCircuit ==
    (chShort.idx # 0 /\ ~chRerun) =>
        /\ NothingAfterShort
        /\ chIdx = chShort.idx - 1 => chOut = [resp |-> NoResp, err |-> chShort.err]
        /\ (chpc = "done" /\ Ahead(chShort.idx) \subseteq {"header", "ratelimit"})
              => chOut = [resp |-> NoResp, err |-> chShort.err]
        /\ (chpc = "done" /\ "retry" \notin Ahead(chShort.idx))
              => (chOut.resp = NoResp /\ chShort.err \subseteq chOut.err)
        /\ chpc = "done"
              => ( \/ chShort.err \subseteq chOut.err
                   \/ ( /\ "retry" \in Ahead(chShort.idx) /\ chCancelled
                        /\ IsTemporary(chShort.err) /\ CtxErr \subseteq chOut.err ) )

\* The second of three entries returned an error without calling next: the
\* third was not invoked, no transport call was made, and the caller got the
\* error.
C7_Witness ==
    /\ chpc = "done"
    /\ Len(middlewares) = 3
    /\ chShort.idx = 2
    /\ middlewares[1].Middleware.type = "header"
    /\ chTrace = <<1, 2>>
    /\ chTerminal = 0
    /\ chOut = [resp |-> NoResp, err |-> {"ErrTimeout"}]

\* How often the entry at index i was invoked for this request.
Invocations(i) == Cardinality({n \in 1..Len(chTrace) : chTrace[n] = i})

\* Chain.Process has returned from a chain with a RetryMiddleware that was
\* invoked for the request.
RetryRan ==
    /\ chpc = "done"
    /\ "retry" \in EntryTypes(middlewares)
    /\ Invocations(PosOf(middlewares, "retry")) > 0

\* The attempts of the RetryMiddleware: its first call of next and one for
\* every retry.
Attempts == chTries[PosOf(middlewares, "retry")] + 1

\* From the RetryMiddleware at r on, every invocation goes to the entry
\* after the one invoked last, or starts an attempt at the entry after r.
InChainOrder(r) ==
    /\ \A n \in 1..Len(chTrace) : n <= r => chTrace[n] = n
    /\ \A n \in (r + 1)..Len(chTrace) :
          chTrace[n] = chTrace[n - 1] + 1 \/ chTrace[n] = r + 1

\* The attempts in which an entry between r and i returned without calling
\* next.
CutShort(r, i) ==
    Cardinality({n \in 1..Len(chFailed) : chFailed[n] > r /\ chFailed[n] < i})

\* C31_Original: in a chain with a RetryMiddleware that makes k attempts for
\* a request, every entry before it is invoked exactly once and every entry
\* after it exactly k times, in chain order on each attempt.
C31_Original ==
    RetryRan =>
        LET r == PosOf(middlewares, "retry")
        IN  /\ \A i \in 1..(r - 1) : Invocations(i) = 1
            /\ \A i \in (r + 1)..Len(middlewares) : Invocations(i) = Attempts
            /\ InChainOrder(r)

\* C31: in a chain with a RetryMiddleware that makes k attempts for a
\* request, every entry before it is invoked exactly once, and every entry
\* after it is invoked once in each attempt that reaches it, in chain order:
\* k times less the attempts in which an entry between the RetryMiddleware
\* and it returned without calling next. The transport is called in every
\* attempt that no entry cut short.
C31_RetryPosition ==
    RetryRan =>
        LET r == PosOf(middlewares, "retry")
        IN  /\ \A i \in 1..(r - 1) : Invocations(i) = 1
            /\ Invocations(r) = 1
            /\ \A i \in (r + 1)..Len(middlewares) :
                    Invocations(i) = Attempts - CutShort(r, i)
            /\ chTerminal = Attempts - CutShort(r, Len(middlewares) + 1)
            /\ InChainOrder(r)

\* A chain of a policy, a RetryMiddleware and two policies after it has
\* processed a request in two attempts: the first went through to the
\* transport, in the second the third entry returned without calling next.
C31_Witness ==
    /\ RetryRan
    /\ Len(middlewares) = 4
    /\ PosOf(middlewares, "retry") = 2
    /\ Attempts = 2
    /\ chTrace = <<1, 2, 3, 4, 3>>
    /\ chTerminal = 1

\* What performRequest can return.
TransportResults == {performRequest(r) : r \in DoResults}

\* C34: with no entry in the chain, Chain.Process invokes no policy and
\* calls the transport once, and what it returns is what performRequest
\* returned: the response, or the transport's error as ErrTimeout or
\* ErrNetwork.
C34_EmptyChain ==
    Len(middlewares) = 0 =>
        /\ chTrace = <<>>
        /\ chFailed = <<>>
        /\ chpc = "down" => chTerminal = 0
        /\ chpc = "done" => (chTerminal = 1 /\ chOut \in TransportResults)

\* A chain without entries has processed a request whose transport call
\* timed out: one transport call, no policy, and the caller got ErrTimeout.
C34_Witness ==
    /\ Len(middlewares) = 0
    /\ chpc = "done"
    /\ chTrace = <<>>
    /\ chTerminal = 1
    /\ chOut = [resp |-> NoResp, err |-> {"ErrTimeout", "context.DeadlineExceeded"}]

\* ------------------------------------------------------------------------
\* pkg/client/middleware: Chain without priorities
\* ------------------------------------------------------------------------

\* The policies given to Then: three types, as FirstMiddleware,
\* SecondMiddleware and ThirdMiddleware of the test, one instance each.
PlainPolicies == {"m1", "m2", "m3"}

\* The arguments of a Then call: one policy or two.
PlainThenArgs ==
    {<<m>> : m \in PlainPolicies} \cup {<<m, n>> : m \in PlainPolicies, n \in PlainPolicies}

Range(seq) == {seq[i] : i \in 1..Len(seq)}

\* The map `seen` of Then after its two loops: a policy stands for its type,
\* so the keys are the policies in the chain and the policies given.
seen(ms, args) == Range(ms) \cup Range(args)

\* The slices `for _, m := range seen` can build: a Go map is ranged over in
\* an order that is not specified and differs from run to run, so every
\* order of the entries is one.
RangeOrders(entries) ==
    {ms \in [1..Cardinality(entries) -> entries] : Range(ms) = entries}

\* The types in the order they were first given.
RECURSIVE AddedOrder(_, _)
AddedOrder(added, args) ==
    IF args = <<>> THEN added
    ELSE AddedOrder(IF Head(args) \in Range(added) THEN added
                    ELSE Append(added, Head(args)), Tail(args))

PlainIdle ==
    /\ plainpc = "idle"
    /\ plainAdded = <<>>
    /\ plainTrace = <<>>
    /\ plainTerminal = 0

\* NewChain(logger) of NewClient: no policy.
PlainInit ==
    /\ plainMiddlewares = <<>>
    /\ PlainIdle

\* Chain.Then
PlainThen ==
    /\ \E args \in PlainThenArgs :
          /\ plainMiddlewares' \in RangeOrders(seen(plainMiddlewares, args))
          /\ plainAdded' = AddedOrder(plainAdded, args)
    /\ UNCHANGED <<plainpc, plainTrace, plainTerminal>>
    /\ UNCHANGED nonPlainVars

\* Chain.Process with policies that call next and return what it returned:
\* processMiddleware goes through the slice from index 0 and calls the
\* transport at its end.
PlainProcess ==
    /\ plainpc' = "done"
    /\ plainTrace' = plainMiddlewares
    /\ plainTerminal' = 1
    /\ UNCHANGED <<plainMiddlewares, plainAdded>>
    /\ UNCHANGED nonPlainVars

NextPlain == PlainThen \/ PlainProcess

\* C35_Original: in the chain whose Then takes only policies, one Process
\* call invokes the policies, of distinct types, in the order in which they
\* were added, each exactly once.
C35_Original ==
    (plainpc = "done" /\ Range(plainTrace) = Range(plainAdded))
        => plainTrace = plainAdded

\* ------------------------------------------------------------------------
\* middleware/proxy, middleware/cookie: rotation
\* ------------------------------------------------------------------------

SelectIndex_FromOne(current, n) == (current + 1) % n

SelectIndex_LivePool(current, n) ==
    IF Len(rotPool) = 0 THEN 0 ELSE (current % Len(rotPool)) % n

SelectIndex_Halved(current, n) == (current \div 2) % n

\* index := int(current % uint64(proxyLen)). The counter is a uint64: the
\* calls modelled stay far below 2^64.
SelectIndex(current, n) == current % n

\* The *http.Client of the caller: its Transport has the proxy setting of
\* the environment. `same` tells whether a client is that very object.
SharedClient == [same |-> TRUE, Transport |-> [Proxy |-> "env"]]

NoClient == [same |-> FALSE, Transport |-> [Proxy |-> "none"]]

applyProxyToClient_InPlace(httpClient, proxy) ==
    [given |-> [httpClient EXCEPT !.Transport.Proxy = proxy],
     passed |-> [httpClient EXCEPT !.Transport.Proxy = proxy]]

\* Process applies the proxy: the client it was given as it is afterwards,
\* and the client it hands to next, a new http.Client around a clone of the
\* transport with Proxy set.
applyProxyToClient(httpClient, proxy) ==
    [given |-> httpClient,
     passed |-> [same |-> FALSE,
                 Transport |-> [httpClient.Transport EXCEPT !.Proxy = proxy]]]

\* The cookie sets on the request a caller hands to Process: none.
NewRequest == <<>>

NoCall == [skip |-> FALSE, next |-> 0, cookies |-> NewRequest]

\* for _, cookie := range cookies { req.AddCookie(cookie) }: the set is
\* added to what the request carries.
AddCookies(req, cookies) == Append(req, cookies)

\* selectCookieSet of the queue: the head goes to the back.
Rotate(pool) == Append(Tail(pool), Head(pool))

RotIdle ==
    /\ rotCurrent = 0
    /\ rotpc = [p \in RotCallers |-> "idle"]
    /\ rotState = [p \in RotCallers |-> <<>>]
    /\ rotUpd = "idle"
    /\ rotCalls = 0
    /\ rotUpdates = 0
    /\ rotInitial = rotPool
    /\ rotLog = <<>>
    /\ rotStored = {rotPool}
    /\ rotTag = [p \in RotCallers |-> 0]
    /\ rotSince = <<>>
    /\ rotClient = SharedClient
    /\ rotPassed = [p \in RotCallers |-> NoClient]
    /\ rotCall = [p \in RotCallers |-> NoCall]

\* proxy.New / cookie.New
RotInit ==
    /\ rotKind \in RotKinds
    /\ rotPool \in RotPools
    /\ RotIdle

RotFrame == UNCHANGED nonRotVars

RotSkip_Advances(p) ==
    /\ rotpc[p] = "idle"
    /\ rotCalls < RotMaxCalls
    /\ rotCalls' = rotCalls + 1
    /\ rotCurrent' = rotCurrent + 1
    /\ rotPassed' = [rotPassed EXCEPT ![p] = rotClient]
    /\ rotCall' = [rotCall EXCEPT ![p] =
                        [skip |-> TRUE, next |-> 1, cookies |-> NewRequest]]
    /\ UNCHANGED <<rotKind, rotPool, rotpc, rotState, rotUpd,
                   rotUpdates, rotInitial, rotLog, rotStored, rotTag, rotSince,
                   rotClient>>
    /\ RotFrame

\* Process with the skip key set in the context: next is called at once.
RotSkip(p) ==
    /\ rotpc[p] = "idle"
    /\ rotCalls < RotMaxCalls
    /\ rotCalls' = rotCalls + 1
    /\ rotPassed' = [rotPassed EXCEPT ![p] = rotClient]
    /\ rotCall' = [rotCall EXCEPT ![p] =
                        [skip |-> TRUE, next |-> 1, cookies |-> NewRequest]]
    /\ UNCHANGED <<rotKind, rotPool, rotCurrent, rotpc, rotState, rotUpd,
                   rotUpdates, rotInitial, rotLog, rotStored, rotTag, rotSince,
                   rotClient>>
    /\ RotFrame

\* Process loads the pool (the cursor) or reads its length (the queue).
RotLoad(p) ==
    /\ rotpc[p] = "idle"
    /\ rotCalls < RotMaxCalls
    /\ rotCalls' = rotCalls + 1
    /\ rotState' = [rotState EXCEPT ![p] = rotPool]
    /\ rotpc' = [rotpc EXCEPT ![p] = "loaded"]
    /\ rotTag' = [rotTag EXCEPT ![p] = IF rotUpd = "idle" THEN rotUpdates ELSE -1]
    /\ rotCall' = [rotCall EXCEPT ![p] =
                        [skip |-> FALSE, next |-> 0, cookies |-> NewRequest]]
    /\ UNCHANGED <<rotKind, rotPool, rotCurrent, rotUpd, rotUpdates, rotInitial, rotLog,
                   rotStored, rotSince, rotClient, rotPassed>>
    /\ RotFrame

RotSelect_CountsEmpty(p) ==
    /\ rotpc[p] = "loaded"
    /\ rotpc' = [rotpc EXCEPT ![p] = "idle"]
    /\ IF Len(rotState[p]) = 0
       THEN /\ rotCurrent' = rotCurrent + 1
            /\ UNCHANGED <<rotPool, rotLog>>
       ELSE IF rotKind = "cursor"
       THEN /\ rotCurrent' = rotCurrent + 1
            /\ rotLog' = Append(rotLog,
                    rotState[p][SelectIndex(rotCurrent, Len(rotState[p])) + 1])
            /\ UNCHANGED rotPool
       ELSE IF Len(rotPool) = 0
       THEN UNCHANGED <<rotPool, rotCurrent, rotLog>>
       ELSE /\ rotLog' = Append(rotLog, Head(rotPool))
            /\ rotPool' = Rotate(rotPool)
            /\ UNCHANGED rotCurrent
    /\ rotSince' = IF rotLog' # rotLog /\ rotTag[p] = rotUpdates
                   THEN Append(rotSince, rotLog'[Len(rotLog')])
                   ELSE rotSince
    /\ IF rotKind = "cursor" /\ rotLog' # rotLog
       THEN LET a == applyProxyToClient(rotClient, rotLog'[Len(rotLog')])
            IN  /\ rotClient' = a.given
                /\ rotPassed' = [rotPassed EXCEPT ![p] = a.passed]
       ELSE /\ rotPassed' = [rotPassed EXCEPT ![p] = rotClient]
            /\ UNCHANGED rotClient
    /\ rotCall' = [rotCall EXCEPT ![p] =
            [skip |-> FALSE,
             next |-> @.next + 1,
             cookies |-> IF rotLog' # rotLog
                         THEN AddCookies(@.cookies, rotLog'[Len(rotLog')])
                         ELSE @.cookies]]
    /\ UNCHANGED <<rotKind, rotState, rotUpd, rotCalls, rotUpdates, rotInitial,
                   rotStored, rotTag>>
    /\ RotFrame

\* Process selects: the cursor advances over the pool it loaded, the queue
\* rotates under its lock; with nothing loaded nothing is selected.
RotSelect(p) ==
    /\ rotpc[p] = "loaded"
    /\ rotpc' = [rotpc EXCEPT ![p] = "idle"]
    /\ IF Len(rotState[p]) = 0
       THEN UNCHANGED <<rotPool, rotCurrent, rotLog>>
       ELSE IF rotKind = "cursor"
       THEN /\ rotCurrent' = rotCurrent + 1
            /\ rotLog' = Append(rotLog,
                    rotState[p][SelectIndex(rotCurrent, Len(rotState[p])) + 1])
            /\ UNCHANGED rotPool
       ELSE IF Len(rotPool) = 0
       THEN UNCHANGED <<rotPool, rotCurrent, rotLog>>
       ELSE /\ rotLog' = Append(rotLog, Head(rotPool))
            /\ rotPool' = Rotate(rotPool)
            /\ UNCHANGED rotCurrent
    /\ rotSince' = IF rotLog' # rotLog /\ rotTag[p] = rotUpdates
                   THEN Append(rotSince, rotLog'[Len(rotLog')])
                   ELSE rotSince
    /\ IF rotKind = "cursor" /\ rotLog' # rotLog
       THEN LET a == applyProxyToClient(rotClient, rotLog'[Len(rotLog')])
            IN  /\ rotClient' = a.given
                /\ rotPassed' = [rotPassed EXCEPT ![p] = a.passed]
       ELSE /\ rotPassed' = [rotPassed EXCEPT ![p] = rotClient]
            /\ UNCHANGED rotClient
    /\ rotCall' = [rotCall EXCEPT ![p] =
            [skip |-> FALSE,
             next |-> @.next + 1,
             cookies |-> IF rotLog' # rotLog
                         THEN AddCookies(@.cookies, rotLog'[Len(rotLog')])
                         ELSE @.cookies]]
    /\ UNCHANGED <<rotKind, rotState, rotUpd, rotCalls, rotUpdates, rotInitial,
                   rotStored, rotTag>>
    /\ RotFrame

\* UpdateProxies / UpdateCookies stores the new pool; the cursor is reset in
\* a second step.
RotUpdateStore ==
    /\ rotUpd = "idle"
    /\ rotUpdates < RotMaxUpdates
    /\ rotUpdates' = rotUpdates + 1
    /\ \E new \in RotNewPools : rotPool' = new
    /\ rotStored' = rotStored \cup {rotPool'}
    /\ rotSince' = <<>>
    /\ rotUpd' = IF rotKind = "cursor" THEN "stored" ELSE "idle"
    /\ UNCHANGED <<rotKind, rotCurrent, rotpc, rotState, rotCalls, rotInitial, rotLog,
                   rotTag, rotClient, rotPassed, rotCall>>
    /\ RotFrame

\* m.current.Store(0)
RotUpdateReset ==
    /\ rotUpd = "stored"
    /\ rotCurrent' = 0
    /\ rotUpd' = "idle"
    /\ UNCHANGED <<rotKind, rotPool, rotpc, rotState, rotCalls, rotUpdates,
                   rotInitial, rotLog, rotStored, rotTag, rotSince, rotClient,
                   rotPassed, rotCall>>
    /\ RotFrame

NextRot ==
    \/ \E p \in RotCallers : RotSkip(p)
    \/ \E p \in RotCallers : RotLoad(p)
    \/ \E p \in RotCallers : RotSelect(p)
    \/ RotUpdateStore
    \/ RotUpdateReset

\* C5: over a static pool the i-th selection (from 0) of a rotator is the
\* pool's element at index i mod the pool's size: A,B,C,A,B,C for [A,B,C];
\* an empty pool selects nothing.
C5_RoundRobin ==
    rotUpdates = 0 =>
        /\ Len(rotInitial) = 0 => rotLog = <<>>
        /\ \A i \in 1..Len(rotLog) :
              rotLog[i] = rotInitial[((i - 1) % Len(rotInitial)) + 1]

\* Six selections over [A,B,C], by either rotator.
C5_Witness ==
    /\ rotUpdates = 0
    /\ rotInitial = <<"A", "B", "C">>
    /\ rotLog = <<"A", "B", "C", "A", "B", "C">>

\* How often the rotator has selected x.
RotUses(x) == Cardinality({i \in 1..Len(rotLog) : rotLog[i] = x})

\* C25: over a static pool of k proxies, with the callers of Process
\* interleaved, every selection has advanced the cursor by one, and of the N
\* selections made each member of the pool has floor(N/k) or ceil(N/k).
C25_CyclicFairness ==
    (rotKind = "cursor" /\ rotUpdates = 0 /\ Len(rotInitial) > 0) =>
        LET k == Len(rotInitial)
            N == Len(rotLog)
        IN  /\ rotCurrent = N
            /\ \A i \in 1..k :
                  RotUses(rotInitial[i]) \in {N \div k, (N + k - 1) \div k}

\* Four selections over the three proxies, one caller having loaded the pool
\* while the other was between its load and its selection.
C25_Witness ==
    /\ rotKind = "cursor"
    /\ rotUpdates = 0
    /\ rotInitial = <<"A", "B", "C">>
    /\ Len(rotLog) = 4
    /\ RotUses("A") = 2
    /\ \A p \in RotCallers : rotpc[p] = "loaded"

\* The members of a pool.
Members(pool) == {pool[i] : i \in 1..Len(pool)}

\* Caller p of ProxyMiddleware.Process goes from its load to its return.
RotSelects(p) == rotKind = "cursor" /\ rotpc[p] = "loaded" /\ rotpc'[p] = "idle"

\* C26: with UpdateProxies running beside the callers of Process, the pool
\* a caller selects from is one of the pools that were stored, whole; its
\* index is the cursor's value modulo the length of that pool and so in
\* range for it; the proxy selected is that pool's member at the index; and
\* over an empty pool the call selects nothing and goes on to next.
C26_OneSnapshot ==
    [][ \A p \in RotCallers :
          RotSelects(p) =>
              LET state == rotState[p]
              IN  /\ state \in rotStored
                  /\ Len(state) = 0 => rotLog' = rotLog
                  /\ Len(state) > 0 =>
                        LET index == rotCurrent % Len(state)
                        IN  /\ index \in 0..(Len(state) - 1)
                            /\ rotLog' = Append(rotLog, state[index + 1])
                            /\ state[index + 1] \in Members(state) ]_vars

\* After three selections from [A,B,C], UpdateProxies has stored [D,E] and
\* not yet reset the cursor, and a caller that loaded [D,E] has selected
\* with the cursor at 3: index 1 of its pool.
C26_Witness ==
    /\ rotKind = "cursor"
    /\ rotInitial = <<"A", "B", "C">>
    /\ rotPool = <<"D", "E">>
    /\ rotUpd = "stored"
    /\ Len(rotLog) = 4
    /\ rotLog[3] = "C"
    /\ rotLog[4] = "E"

\* C27_Original: once UpdateProxies(P) has returned, the selections of the
\* calls that started afterwards are members of P, and they run through P
\* from P[0]: the i-th of them (from 0) is P[i mod len(P)].
C27_Original ==
    (rotKind = "cursor" /\ rotUpdates >= 1 /\ rotUpd = "idle") =>
        \A i \in 1..Len(rotSince) :
            /\ rotSince[i] \in Members(rotPool)
            /\ rotSince[i] = rotPool[((i - 1) % Len(rotPool)) + 1]

RotSkips(p) ==
    /\ rotpc[p] = "idle"
    /\ rotCalls' = rotCalls + 1
    /\ rotpc' = rotpc
    /\ rotCall'[p].skip
    /\ \A q \in RotCallers \ {p} : rotCall'[q] = rotCall[q]

\* C32: a Process call whose context carries the skip key set to true hands
\* next the client it was given, untouched, and the request with nothing
\* added to it, invokes next once, and leaves the rotation state as it was:
\* the cursor, the pool (the queue), and what has been selected.
C32_SkipKey ==
    [][ \A p \in RotCallers :
            RotSkips(p) =>
                /\ rotPassed'[p] = SharedClient
                /\ rotClient' = SharedClient
                /\ rotCall'[p].cookies = NewRequest
                /\ rotCall'[p].next = 1
                /\ UNCHANGED <<rotCurrent, rotPool, rotState, rotLog>> ]_vars

\* One caller's call selected A, the other caller's call carried the skip
\* key, and a third call selected B: the skipped call was handed the shared
\* client and took no turn of the rotation.
C32_Witness ==
    /\ rotInitial = <<"A", "B">>
    /\ rotUpdates = 0
    /\ rotCalls = 3
    /\ rotLog = <<"A", "B">>
    /\ \E p \in RotCallers :
          /\ rotpc[p] = "idle"
          /\ rotCall[p].skip
          /\ rotCall[p].next = 1
          /\ rotCall[p].cookies = NewRequest
          /\ rotPassed[p] = SharedClient

\* C33: a Process call that finds the pool empty invokes next once with the
\* client it was given and the request with nothing added to it, selects
\* nothing and sets no proxy, and leaves the rotation state as it was.
C33_EmptyPool ==
    [][ \A p \in RotCallers :
            (rotpc[p] = "loaded" /\ rotpc'[p] = "idle" /\ Len(rotState[p]) = 0) =>
                /\ rotPassed'[p] = SharedClient
                /\ rotClient' = SharedClient
                /\ rotCall'[p].cookies = NewRequest
                /\ rotCall'[p].next = 1
                /\ UNCHANGED <<rotCurrent, rotPool, rotLog>> ]_vars

\* After a selection of A the pool was replaced by an empty one, and a call
\* that began after the update has returned: it was handed the shared client
\* and nothing was selected for it.
C33_Witness ==
    /\ rotUpdates = 1
    /\ rotUpd = "idle"
    /\ rotPool = <<>>
    /\ rotLog = <<"A">>
    /\ \E p \in RotCallers :
          /\ rotpc[p] = "idle"
          /\ rotTag[p] = 1
          /\ ~rotCall[p].skip
          /\ rotCall[p].next = 1
          /\ rotCall[p].cookies = NewRequest
          /\ rotPassed[p] = SharedClient

\* ------------------------------------------------------------------------
\* middleware/proxy: selection weighted by the time since the last use
\* ------------------------------------------------------------------------

WPCallers == {"g1", "g2"}

\* The pools New and UpdateProxies are given.
WPPools == {<<>>, <<"A">>, <<"A", "B">>}

WPNewPools == {<<>>, <<"C">>, <<"C", "D", "E">>}

\* The Process calls and the updates made altogether.
WPMaxCalls == 3
WPMaxUpdates == 2

\* time.Now().Add(-24 * time.Hour) at time 0, with a day of WPDay hours.
WPDay == 2

\* weight := 1.0 + now.Sub(lastUsed).Hours()
Weight(now, lastUsed) == 1 + (now - lastUsed)

RECURSIVE Total(_, _)
Total(now, lastUsed) ==
    IF lastUsed = <<>> THEN 0
    ELSE Weight(now, Head(lastUsed)) + Total(now, Tail(lastUsed))

\* The second loop of selectProxy over weights from index i (from 0): the
\* index at which r, less the weights so far, is not above 0, or -1 when
\* the loop ends without one.
RECURSIVE Draw(_, _, _, _)
Draw(now, lastUsed, i, r) ==
    IF i >= Len(lastUsed) THEN -1
    ELSE IF r - Weight(now, lastUsed[i + 1]) <= 0 THEN i
    ELSE Draw(now, lastUsed, i + 1, r - Weight(now, lastUsed[i + 1]))

\* selectProxy, given r = rand.Float64() * total: the index it settles on,
\* which is len(proxies) - 1 when the loop found none.
selectIndex(now, proxies, lastUsed, r) ==
    LET i == Draw(now, lastUsed, 0, r)
    IN  IF i >= 0 THEN i ELSE Len(proxies) - 1

\* rand.Float64() * total lies in [0, total): in the model a whole number.
Draws(total) == IF total = 0 THEN {0} ELSE 0..(total - 1)

\* lastUsed of New and of the new entries of UpdateProxies.
RECURSIVE newLastUsed(_, _, _)
newLastUsed(n, old, now) ==
    IF n = 0 THEN <<>>
    ELSE Append(newLastUsed(n - 1, old, now),
                IF n <= Len(old) THEN old[n] ELSE now - WPDay)

WPIdle ==
    /\ wpNow = 0
    /\ wppc = [p \in WPCallers |-> "idle"]
    /\ wpIndex = [p \in WPCallers |-> {}]
    /\ wpProxy = [p \in WPCallers |-> <<>>]
    /\ wpHeld = [p \in WPCallers |-> <<>>]
    /\ wpCalls = 0
    /\ wpUpdates = 0

\* proxy.New
WPInit ==
    /\ wpProxies \in WPPools
    /\ wpLastUsed = newLastUsed(Len(wpProxies), <<>>, 0)
    /\ WPIdle

\* Process reads len(m.state.proxies) under the read lock; with none it
\* goes on to next.
WPCheck(p) ==
    /\ wppc[p] = "idle"
    /\ wpCalls < WPMaxCalls
    /\ wpCalls' = wpCalls + 1
    /\ wppc' = [wppc EXCEPT ![p] = IF Len(wpProxies) > 0 THEN "checked" ELSE "idle"]
    /\ wpIndex' = [wpIndex EXCEPT ![p] = {}]
    /\ wpProxy' = [wpProxy EXCEPT ![p] = <<>>]
    /\ wpHeld' = [wpHeld EXCEPT ![p] = <<>>]
    /\ UNCHANGED <<wpProxies, wpLastUsed, wpNow, wpUpdates>>
    /\ UNCHANGED nonWPVars

\* selectProxy under the lock. An index outside m.state.lastUsed is a
\* run-time panic: the lock is released and Process does not return.
WPSelect(p) ==
    /\ wppc[p] = "checked"
    /\ wpNow' = wpNow + 1
    /\ wpHeld' = [wpHeld EXCEPT ![p] = wpProxies]
    /\ \E r \in Draws(Total(wpNow', wpLastUsed)) :
          LET i == selectIndex(wpNow', wpProxies, wpLastUsed, r)
          IN  /\ wpIndex' = [wpIndex EXCEPT ![p] = {i}]
              /\ IF i \in 0..(Len(wpProxies) - 1)
                 THEN /\ wpLastUsed' = [wpLastUsed EXCEPT ![i + 1] = wpNow']
                      /\ wpProxy' = [wpProxy EXCEPT ![p] = <<wpProxies[i + 1]>>]
                      /\ wppc' = [wppc EXCEPT ![p] = "idle"]
                 ELSE /\ wppc' = [wppc EXCEPT ![p] = "panic"]
                      /\ UNCHANGED <<wpLastUsed, wpProxy>>
    /\ UNCHANGED <<wpProxies, wpCalls, wpUpdates>>
    /\ UNCHANGED nonWPVars

\* UpdateProxies under the lock.
WPUpdateProxies ==
    /\ wpUpdates < WPMaxUpdates
    /\ wpUpdates' = wpUpdates + 1
    /\ \E newProxies \in WPNewPools :
          /\ wpProxies' = newProxies
          /\ wpLastUsed' = newLastUsed(Len(newProxies), wpLastUsed, wpNow)
    /\ UNCHANGED <<wpNow, wppc, wpIndex, wpProxy, wpHeld, wpCalls>>
    /\ UNCHANGED nonWPVars

NextWP ==
    \/ \E p \in WPCallers : WPCheck(p)
    \/ \E p \in WPCallers : WPSelect(p)
    \/ WPUpdateProxies

\* C36_Original: with UpdateProxies running beside the callers of Process,
\* selectProxy reads and writes only at indices of the pool it holds under
\* the lock, never at -1, and what it returns is a member of that pool.
C36_Original ==
    \A p \in WPCallers :
        /\ wpIndex[p] \subseteq 0..(Len(wpHeld[p]) - 1)
        /\ wppc[p] # "panic"
        /\ wpProxy[p] # <<>> => wpProxy[p][1] \in Range(wpHeld[p])

\* ------------------------------------------------------------------------
\* middleware/retry ordered before middleware/cookie or
\* middleware/singleflight: the attempts of one logical request
\* ------------------------------------------------------------------------

\* The policy after the RetryMiddleware: the CookieMiddleware with the
\* counter, the CookieMiddleware with the queue, or the
\* SingleFlightMiddleware.
AtInners == {"cookie", "queue", "singleflight"}

AtPools == {<<>>, <<"A">>, <<"A", "B">>}

\* The requests: those of the singleflight model whose Body can be read.
AtRequests == {r \in SFRequests : ~r.body.fails}

\* What http.Client.Do answers, and whether it has read the request's Body
\* to the end by then: a response comes after the request was written, an
\* error comes before (the dial failed) or after.
AtDoResults ==
    {[r |-> r, read |-> TRUE] : r \in DoResults}
        \cup {[r |-> r, read |-> FALSE] : r \in {d \in DoResults : d.err # NoErr}}

AtIdle ==
    /\ atCurrent = 0
    /\ atReq = NoRequest
    /\ atCookies = NewRequest
    /\ atpc = "idle"
    /\ atTries = 0
    /\ atSelected = <<>>
    /\ atKey = <<>>
    /\ atOut = NoOutcome
    /\ atLog = <<>>

\* cookie.New or singleflight.New behind retry.New
AtInit ==
    /\ atInner \in AtInners
    /\ atPool \in (IF atInner = "singleflight" THEN {<<>>} ELSE AtPools)
    /\ AtIdle

\* RetryMiddleware.Process is entered with a new request and invokes next.
AtProcess ==
    /\ atpc = "idle"
    /\ atReq' \in AtRequests
    /\ atpc' = "inner"
    /\ UNCHANGED <<atInner, atPool, atCurrent, atCookies, atTries, atSelected,
                   atKey, atOut, atLog>>
    /\ UNCHANGED nonAtVars

\* CookieMiddleware.Process: a cookie set is selected and added to the
\* request, and next is invoked.
AtCookie ==
    /\ atpc = "inner"
    /\ atInner \in {"cookie", "queue"}
    /\ atpc' = "transport"
    /\ IF Len(atPool) = 0
       THEN /\ atSelected' = <<>>
            /\ UNCHANGED <<atPool, atCurrent, atCookies>>
       ELSE IF atInner = "cookie"
       THEN /\ atSelected' = <<atPool[SelectIndex(atCurrent, Len(atPool)) + 1]>>
            /\ atCurrent' = atCurrent + 1
            /\ atCookies' = AddCookies(atCookies, atSelected'[1])
            /\ UNCHANGED atPool
       ELSE /\ atSelected' = <<Head(atPool)>>
            /\ atPool' = Rotate(atPool)
            /\ atCookies' = AddCookies(atCookies, atSelected'[1])
            /\ UNCHANGED atCurrent
    /\ UNCHANGED <<atInner, atReq, atTries, atKey, atOut, atLog>>
    /\ UNCHANGED nonAtVars

\* SingleFlightMiddleware.Process: generateRequestKey computes the key and
\* leaves req.Body as a reader over what it read; no other call is in
\* flight, so sfGroup.Do invokes next.
AtSingleFlight ==
    /\ atpc = "inner"
    /\ atInner = "singleflight"
    /\ atpc' = "transport"
    /\ \E order \in Enumerations(atReq.hdrs) :
          LET g == generateRequestKey(atReq, order)
          IN  /\ atKey' = g.key
              /\ atReq' = [atReq EXCEPT !.body = g.body]
    /\ UNCHANGED <<atInner, atPool, atCurrent, atCookies, atTries, atSelected,
                   atOut, atLog>>
    /\ UNCHANGED nonAtVars

\* performRequest: http.Client.Do sends the request with the cookies it
\* carries, and reads its Body to the end unless it fails before.
AtPerformRequest ==
    /\ atpc = "transport"
    /\ atpc' = "back"
    /\ \E d \in AtDoResults :
          /\ atOut' = PolicyResult(IF atInner = "singleflight" THEN "singleflight"
                                   ELSE "header", performRequest(d.r), FALSE)
          /\ atReq' = IF d.read /\ ~atReq.body.nil
                      THEN [atReq EXCEPT !.body = Drained(atReq.body)]
                      ELSE atReq
          /\ atLog' = Append(atLog, [selected |-> atSelected, sent |-> atCookies,
                                     key |-> atKey,
                                     read |-> d.read /\ ~atReq.body.nil])
    /\ UNCHANGED <<atInner, atPool, atCurrent, atCookies, atTries, atSelected, atKey>>
    /\ UNCHANGED nonAtVars

\* The operation of RetryNotify found a temporary failure and tries are
\* left: next is invoked again, with the same request.
AtRetryAgain ==
    /\ atpc = "back"
    /\ RetriesAgain("retry", atOut, atTries, FALSE)
    /\ atTries' = atTries + 1
    /\ atpc' = "inner"
    /\ UNCHANGED <<atInner, atPool, atCurrent, atReq, atCookies, atSelected,
                   atKey, atOut, atLog>>
    /\ UNCHANGED nonAtVars

\* RetryMiddleware.Process returns; the next logical request is a new
\* *http.Request.
AtReturn ==
    /\ atpc = "back"
    /\ ~RetriesAgain("retry", atOut, atTries, FALSE)
    /\ atpc' = "done"
    /\ atOut' = PolicyResult("retry", atOut, FALSE)
    /\ UNCHANGED <<atInner, atPool, atCurrent, atReq, atCookies, atTries,
                   atSelected, atKey, atLog>>
    /\ UNCHANGED nonAtVars

NextAt ==
    \/ AtProcess
    \/ AtCookie
    \/ AtSingleFlight
    \/ AtPerformRequest
    \/ AtRetryAgain
    \/ AtReturn

\* C38_Original: with a CookieMiddleware ordered after the RetryMiddleware,
\* the request of every attempt goes out with exactly one cookie set, the
\* one selected for that attempt, and with none from an earlier attempt.
C38_Original ==
    atInner \in {"cookie", "queue"} =>
        \A n \in 1..Len(atLog) : atLog[n].sent = atLog[n].selected

\* C39_Original: with the RetryMiddleware ordered before the
\* SingleFlightMiddleware, every attempt of a logical request computes the
\* key its first attempt computed, also after the transport has read the
\* request's Body to the end.
C39_Original ==
    atInner = "singleflight" =>
        \A n \in 1..Len(atLog) : atLog[n].key = atLog[1].key

\* ------------------------------------------------------------------------
\* middleware/ratelimit
\* ------------------------------------------------------------------------

Min(a, b) == IF a < b THEN a ELSE b

\* What one request takes from the bucket.
RLCost == RLTokenPeriod

RLCapacity_ExtraToken == (rlBurst + 1) * RLTokenPeriod

\* What the full bucket holds: the burst rate.NewLimiter is given.
RLCapacity == rlBurst * RLTokenPeriod

\* Limiter.advance: the tokens at `now`.
advance(now) == Min(RLCapacity, rlTokens + (now - Min(rlLast, now)))

\* Limit.durationFromTokens of the tokens that are missing.
WaitDuration(tokens) == IF tokens < 0 THEN 0 - tokens ELSE 0

\* Limiter.reserveN for one token: whether the reservation is granted, the
\* tokens left and the delay.
reserveN(now, deadline) ==
    LET tokens == advance(now) - RLCost
        wait == WaitDuration(tokens)
    IN  [ok |-> 1 <= rlBurst /\ \A t \in deadline : wait <= t - now,
         tokens |-> tokens,
         wait |-> wait]

\* The error Process makes of the error Wait returned.
RLProcessError(version, err) ==
    IF version = "timeout"
    THEN IF "ErrWouldExceedDeadline" \in err THEN {"ErrTimeout"} ELSE err
    ELSE Wrap("ErrRateLimitExceeded", err)

\* The error of a context that is done.
RLCtxErr(p, now) ==
    IF \E t \in rlDeadline[p] : t <= now
    THEN {"context.DeadlineExceeded"}
    ELSE {"context.Canceled"}

RLIdle ==
    /\ rlTokens = RLCapacity
    /\ rlLast = 1
    /\ rlLastEvent = 1
    /\ rlNow = 1
    /\ rlpc = [p \in RLCallers |-> "idle"]
    /\ rlAct = [p \in RLCallers |-> 0]
    /\ rlDeadline = [p \in RLCallers |-> RLNoDeadline]
    /\ rlRet = [p \in RLCallers |-> NoErr]
    /\ rlWaitErr = [p \in RLCallers |-> NoErr]
    /\ rlAdmitted = [p \in RLCallers |-> FALSE]
    /\ rlWaited = [p \in RLCallers |-> FALSE]
    /\ rlArrival = [p \in RLCallers |-> 0]
    /\ rlArrivals = 0
    /\ rlCalls = 0
    /\ rlNextCalls = 0

\* ratelimit.New: rate.NewLimiter starts with a full bucket.
RLInit ==
    /\ rlVersion \in RLVersions
    /\ rlBurst \in 0..RLMaxBurst
    /\ RLIdle

RLFrame == UNCHANGED nonRLVars

\* Process returns err without calling next.
RLReject(p, err) ==
    /\ rlpc' = [rlpc EXCEPT ![p] = "done"]
    /\ rlRet' = [rlRet EXCEPT ![p] = RLProcessError(rlVersion, err)]
    /\ rlWaitErr' = [rlWaitErr EXCEPT ![p] = err]
    /\ rlAdmitted' = [rlAdmitted EXCEPT ![p] = FALSE]
    /\ UNCHANGED rlNextCalls

\* Wait returns nil and Process calls next.
RLAdmit(p) ==
    /\ rlpc' = [rlpc EXCEPT ![p] = "done"]
    /\ rlRet' = [rlRet EXCEPT ![p] = NoErr]
    /\ rlWaitErr' = [rlWaitErr EXCEPT ![p] = NoErr]
    /\ rlAdmitted' = [rlAdmitted EXCEPT ![p] = TRUE]
    /\ rlNextCalls' = rlNextCalls + 1

\* Process calls Wait with a context that is already done.
RLCallDone(p) ==
    /\ rlpc[p] \in {"idle", "done"}
    /\ rlCalls < RLMaxCalls
    /\ rlCalls' = rlCalls + 1
    /\ rlDeadline' = [rlDeadline EXCEPT ![p] = RLNoDeadline]
    /\ rlWaited' = [rlWaited EXCEPT ![p] = FALSE]
    /\ rlArrival' = [rlArrival EXCEPT ![p] = 0]
    /\ IF 1 > rlBurst
       THEN RLReject(p, {"ErrExceedsBurst"})
       ELSE RLReject(p, {"context.Canceled"})
    /\ UNCHANGED <<rlVersion, rlBurst, rlTokens, rlLast, rlLastEvent, rlNow, rlAct,
                   rlArrivals>>
    /\ RLFrame

\* Process calls Wait with a live context, with or without a deadline: Wait
\* refuses, returns at once, or sleeps.
RLCall(p) ==
    /\ rlpc[p] \in {"idle", "done"}
    /\ rlCalls < RLMaxCalls
    /\ rlCalls' = rlCalls + 1
    /\ rlArrivals' = rlArrivals + 1
    /\ rlArrival' = [rlArrival EXCEPT ![p] = rlArrivals + 1]
    /\ \E d \in 0..RLMaxDeadline :
        LET deadline == IF d = 0 THEN RLNoDeadline ELSE {rlNow + d}
            r == reserveN(rlNow, deadline)
        IN  /\ rlDeadline' = [rlDeadline EXCEPT ![p] = deadline]
            /\ IF 1 > rlBurst
               THEN /\ RLReject(p, {"ErrExceedsBurst"})
                    /\ rlWaited' = [rlWaited EXCEPT ![p] = FALSE]
                    /\ UNCHANGED <<rlTokens, rlLast, rlLastEvent, rlAct>>
               ELSE IF ~r.ok
               THEN /\ RLReject(p, {"ErrWouldExceedDeadline"})
                    /\ rlWaited' = [rlWaited EXCEPT ![p] = FALSE]
                    /\ UNCHANGED <<rlTokens, rlLast, rlLastEvent, rlAct>>
               ELSE /\ rlTokens' = r.tokens
                    /\ rlLast' = rlNow
                    /\ rlLastEvent' = rlNow + r.wait
                    /\ rlAct' = [rlAct EXCEPT ![p] = rlNow + r.wait]
                    /\ IF r.wait = 0
                       THEN /\ RLAdmit(p)
                            /\ rlWaited' = [rlWaited EXCEPT ![p] = FALSE]
                       ELSE /\ rlpc' = [rlpc EXCEPT ![p] = "waiting"]
                            /\ rlWaited' = [rlWaited EXCEPT ![p] = TRUE]
                            /\ UNCHANGED <<rlRet, rlWaitErr, rlAdmitted, rlNextCalls>>
    /\ UNCHANGED <<rlVersion, rlBurst, rlNow>>
    /\ RLFrame

\* The timer of a sleeping Wait fires.
RLTimerFires(p) ==
    /\ rlpc[p] = "waiting"
    /\ rlAct[p] <= rlNow
    /\ RLAdmit(p)
    /\ UNCHANGED <<rlVersion, rlBurst, rlTokens, rlLast, rlLastEvent, rlNow, rlAct,
                   rlDeadline, rlWaited, rlArrival, rlArrivals, rlCalls>>
    /\ RLFrame

\* The context of a sleeping Wait is done (cancelled, or past its deadline):
\* Reservation.Cancel gives the token back and Wait returns the context's
\* error.
RLCtxDone(p) ==
    /\ rlpc[p] = "waiting"
    /\ LET restore == RLCost - (rlLastEvent - rlAct[p])
           tokens == Min(RLCapacity, advance(rlNow) + restore)
       IN  IF rlAct[p] < rlNow \/ restore <= 0
           THEN UNCHANGED <<rlTokens, rlLast, rlLastEvent>>
           ELSE /\ rlTokens' = tokens
                /\ rlLast' = rlNow
                /\ rlLastEvent' = IF rlAct[p] = rlLastEvent /\ rlAct[p] - RLCost >= rlNow
                                  THEN rlAct[p] - RLCost
                                  ELSE rlLastEvent
    /\ RLReject(p, RLCtxErr(p, rlNow))
    /\ UNCHANGED <<rlVersion, rlBurst, rlNow, rlAct, rlDeadline, rlWaited, rlArrival,
                   rlArrivals, rlCalls>>
    /\ RLFrame

\* Time passes.
RLTick ==
    /\ rlNow < RLMaxTime + 1
    /\ rlNow' = rlNow + 1
    /\ UNCHANGED <<rlVersion, rlBurst, rlTokens, rlLast, rlLastEvent, rlpc, rlAct,
                   rlDeadline, rlRet, rlWaitErr, rlAdmitted, rlWaited, rlArrival, rlArrivals,
                   rlCalls, rlNextCalls>>
    /\ RLFrame

NextRL ==
    \/ \E p \in RLCallers : RLCallDone(p)
    \/ \E p \in RLCallers : RLCall(p)
    \/ \E p \in RLCallers : RLTimerFires(p)
    \/ \E p \in RLCallers : RLCtxDone(p)
    \/ RLTick

\* C6: with burst B and the bucket full at the start, the first B calls
\* (whose context is live) are admitted: Wait returns nil without sleeping
\* and next is invoked; and next is never invoked more often than B plus the
\* tokens refilled since, so a (B+1)-th call made before a refill is not
\* admitted until a token has been refilled.
C6_Burst ==
    /\ \A p \in RLCallers :
          rlArrival[p] \in 1..rlBurst =>
              /\ rlpc[p] = "done"
              /\ rlAdmitted[p]
              /\ ~rlWaited[p]
              /\ rlRet[p] = NoErr
    /\ rlNextCalls <= rlBurst + ((rlNow - 1) \div RLTokenPeriod)
    /\ \A p \in RLCallers :
          (rlArrival[p] = rlBurst + 1 /\ rlAdmitted[p] /\ rlpc[p] = "done")
              => rlNow >= 1 + RLTokenPeriod

\* With burst 2, two calls were admitted at once; the third slept until the
\* first token was refilled, and was then admitted.
C6_Witness ==
    /\ rlBurst = 2
    /\ rlNextCalls = 3
    /\ rlNow = 1 + RLTokenPeriod
    /\ \E p \in RLCallers :
          rlArrival[p] = 3 /\ rlpc[p] = "done" /\ rlAdmitted[p] /\ rlWaited[p]

\* A call of Process has returned without a token because the context was
\* cancelled or its deadline was (or would be) exceeded.
RLContextFailure(p) ==
    /\ rlpc[p] = "done"
    /\ rlRet[p] # NoErr
    /\ "ErrExceedsBurst" \notin rlRet[p]

\* C22_Original: in the Process that turns Wait's deadline error into
\* ErrTimeout, a call that got no token before its context was cancelled or
\* its deadline exceeded has not invoked next and returns an error whose
\* chain contains ErrTimeout, so that IsTemporary holds of it.
C22_Original ==
    rlVersion = "timeout" =>
        \A p \in RLCallers :
            RLContextFailure(p) =>
                /\ ~rlAdmitted[p]
                /\ "ErrTimeout" \in rlRet[p]
                /\ IsTemporary(rlRet[p])

\* C30_Original: a policy that returns because of a failure it received from
\* next (RetryMiddleware, CircuitBreakerMiddleware, SingleFlightMiddleware)
\* or from its own wait (RateLimiterMiddleware) returns an error whose chain
\* contains the chain of that failure, so that errors.Is finds the cause and
\* its kind in it.
C30_Original ==
    /\ (rpc = "done" /\ rStop \in {"permanent", "tries", "elapsed"})
            => rLastErr \subseteq rRetErr
    /\ \A p \in CBCallers :
            (cbpc[p] = "done" /\ cbNext[p] # <<>>)
                => cbNext[p][1].err \subseteq cbRet[p].err
    /\ \A p \in Callers :
            sfpc[p] \in {"released", "done"}
                => sfProduced[p].err \subseteq sfRet[p].err
    /\ \A p \in RLCallers :
            rlpc[p] = "done" => rlWaitErr[p] \subseteq rlRet[p]

\* ------------------------------------------------------------------------
\* pkg/client/errors: error values
\* ------------------------------------------------------------------------

ErrIdle == errTemp = <<>>

\* One of the sentinel errors of the package.
ErrInit ==
    /\ errChain \in {{kind} : kind \in ErrSentinels}
    /\ ErrIdle

\* fmt.Errorf("%w: %w", kind, err) around the error.
ErrWrap ==
    /\ Cardinality(errChain) < ErrMaxChain
    /\ \E kind \in ErrSentinels : errChain' = Wrap(kind, errChain)
    /\ errTemp' = <<>>
    /\ UNCHANGED nonErrVars

\* IsTemporary is called with the error.
ErrIsTemporary ==
    /\ errTemp = <<>>
    /\ errTemp' = <<IsTemporary(errChain)>>
    /\ UNCHANGED errChain
    /\ UNCHANGED nonErrVars

NextErr == ErrWrap \/ ErrIsTemporary

\* C29_Original: IsTemporary holds of an error exactly if its chain contains
\* ErrNetwork, ErrTimeout or ErrBadStatus and does not contain ErrPermanent.
C29_Original ==
    errTemp # <<>> =>
        (errTemp[1] <=> ( /\ {"ErrNetwork", "ErrTimeout", "ErrBadStatus"} \cap errChain # {}
                          /\ "ErrPermanent" \notin errChain ))

\* ------------------------------------------------------------------------
\* Specifications
\* ------------------------------------------------------------------------

ErrDefault == errChain = NoErr /\ ErrIdle

PlainDefault == PlainInit

WPDefault == wpProxies = <<>> /\ wpLastUsed = <<>> /\ WPIdle

AtDefault == atInner = "cookie" /\ atPool = <<>> /\ AtIdle

RetryDefault == rVersion = "plain" /\ maxAttempts = 0 /\ RetryIdle

CBDefault == cbMaxRequests = 1 /\ cbInterval = 0 /\ CBIdle

ChainDefault == middlewares = <<>> /\ chAdded = {} /\ ChainIdle

RotDefault == rotKind = "cursor" /\ rotPool = <<>> /\ RotIdle

RLDefault == rlVersion = "timeout" /\ rlBurst = 0 /\ RLIdle

InitRetry ==
    /\ RetryInit
    /\ SFIdle /\ CBDefault /\ ChainDefault /\ RotDefault /\ RLDefault
    /\ ErrDefault /\ PlainDefault /\ WPDefault /\ AtDefault

SpecRetry == InitRetry /\ [][NextRetry]_vars

InitSF ==
    /\ SFInit
    /\ RetryDefault /\ CBDefault /\ ChainDefault /\ RotDefault /\ RLDefault
    /\ ErrDefault /\ PlainDefault /\ WPDefault /\ AtDefault

SpecSF == InitSF /\ [][NextSF]_vars

InitCB ==
    /\ CBInit
    /\ RetryDefault /\ SFIdle /\ ChainDefault /\ RotDefault /\ RLDefault
    /\ ErrDefault /\ PlainDefault /\ WPDefault /\ AtDefault

SpecCB == InitCB /\ [][NextCB]_vars

\* In a chain the RetryMiddleware is the one of retry.go.
InitChain ==
    /\ ChainInit
    /\ rVersion = "plain" /\ maxAttempts = ChainMaxAttempts /\ RetryIdle
    /\ SFIdle /\ CBDefault /\ RotDefault /\ RLDefault /\ ErrDefault
    /\ PlainDefault /\ WPDefault /\ AtDefault

SpecChain == InitChain /\ [][NextChain]_vars

InitLongChain ==
    /\ LongChainInit
    /\ rVersion = "plain" /\ maxAttempts = ChainMaxAttempts /\ RetryIdle
    /\ SFIdle /\ CBDefault /\ RotDefault /\ RLDefault /\ ErrDefault
    /\ PlainDefault /\ WPDefault /\ AtDefault

SpecLongChain == InitLongChain /\ [][NextLongChain]_vars

InitRot ==
    /\ RotInit
    /\ RetryDefault /\ SFIdle /\ CBDefault /\ ChainDefault /\ RLDefault
    /\ ErrDefault /\ PlainDefault /\ WPDefault /\ AtDefault

SpecRot == InitRot /\ [][NextRot]_vars

InitRL ==
    /\ RLInit
    /\ RetryDefault /\ SFIdle /\ CBDefault /\ ChainDefault /\ RotDefault
    /\ ErrDefault /\ PlainDefault /\ WPDefault /\ AtDefault

SpecRL == InitRL /\ [][NextRL]_vars

InitErr ==
    /\ ErrInit
    /\ RetryDefault /\ SFIdle /\ CBDefault /\ ChainDefault /\ RotDefault
    /\ RLDefault /\ PlainDefault /\ WPDefault /\ AtDefault

SpecErr == InitErr /\ [][NextErr]_vars

InitPlain ==
    /\ PlainInit
    /\ RetryDefault /\ SFIdle /\ CBDefault /\ ChainDefault /\ RotDefault
    /\ RLDefault /\ ErrDefault /\ WPDefault /\ AtDefault

SpecPlain == InitPlain /\ [][NextPlain]_vars

InitWP ==
    /\ WPInit
    /\ RetryDefault /\ SFIdle /\ CBDefault /\ ChainDefault /\ RotDefault
    /\ RLDefault /\ ErrDefault /\ PlainDefault /\ AtDefault

SpecWP == InitWP /\ [][NextWP]_vars

\* The RetryMiddleware ahead of the policy is the one of retry.go.
InitAt ==
    /\ AtInit
    /\ rVersion = "plain" /\ maxAttempts = ChainMaxAttempts /\ RetryIdle
    /\ SFIdle /\ CBDefault /\ ChainDefault /\ RotDefault /\ RLDefault
    /\ ErrDefault /\ PlainDefault /\ WPDefault

SpecAt == InitAt /\ [][NextAt]_vars

Init ==
    /\ RetryInit
    /\ SFInit
    /\ CBInit
    /\ ChainInit
    /\ RotInit
    /\ RLInit
    /\ ErrInit
    /\ PlainInit
    /\ WPInit
    /\ AtInit

Next ==
    \/ NextRetry
    \/ NextSF
    \/ NextCB
    \/ NextChain
    \/ NextLongChain
    \/ NextRot
    \/ NextRL
    \/ NextErr
    \/ NextPlain
    \/ NextWP
    \/ NextAt

Spec == Init /\ [][Next]_vars

====
